---- MODULE Spec2Model ----
(***************************************************************************)
(* Graph execution engine of GenXAI (genxai/core/graph): the graph         *)
(* container (add_node, add_edge, adjacency indices), the asynchronous     *)
(* traversal Graph.run / Graph._execute_node with parallel fan-out through *)
(* asyncio.gather, the node logic of Graph and EnhancedGraph, and the      *)
(* checkpoint documents.                                                   *)
(*                                                                         *)
(* asyncio is modelled as cooperative tasks: one task holds the processor  *)
(* (variable running) from the moment it is resumed until it suspends on   *)
(* an external call or on asyncio.gather, or finishes; the event loop then *)
(* resumes any task that is able to run.                                   *)
(***************************************************************************)
EXTENDS Integers, Sequences, FiniteSets, TLC

VARIABLES
    nodes,              \* Graph.nodes: id -> [type, status, result, error]
    node_order,         \* insertion order of the keys of Graph.nodes
    edges,              \* Graph.edges
    adjacency_list,     \* Graph._adjacency_list (keys present -> list of edges)
    reverse_adjacency,  \* Graph._reverse_adjacency (keys present -> list of source ids)
    last_call,          \* the last call of the container or the checkpoint manager and its outcome
    directory,          \* the checkpoint directory: checkpoint name -> stored document
    checkpoint,         \* the checkpoint object the last load_checkpoint returned
    topo_result,        \* the list the last topological_sort returned
    enhanced,           \* TRUE: the graph object is an EnhancedGraph
    registry,           \* AgentRegistry: agent id -> the registered agent object
    calls,              \* the WorkflowExecutor.execute calls of the process
    state,              \* the state dict of the current run
    max_iterations,     \* argument of the current run
    entry_points,       \* entry_points list computed by run
    tasks,              \* asyncio tasks: task 1 is the caller's run(), the others come from gather
    running,            \* the task that holds the processor, 0 when the event loop is choosing
    outcome,            \* "idle" | "running" | "returned" | "raised" for the current run() call
    run_error,          \* message of the exception run() raised
    runs,               \* number of run() calls made
    hist                \* observations: logic invocations, visits, state writes, edge follow-ups

vars == <<nodes, node_order, edges, adjacency_list, reverse_adjacency, last_call,
          directory, checkpoint, topo_result, enhanced, registry, calls, state,
          max_iterations, entry_points, tasks, running, outcome, run_error, runs, hist>>

call_vars == <<last_call, directory, checkpoint, topo_result, calls>>
graph_vars == <<nodes, node_order, edges, adjacency_list, reverse_adjacency>>
run_vars == <<enhanced, registry, state, max_iterations, entry_points, tasks, running,
              outcome, run_error, runs, hist>>

(***************************************************************************)
(* Bounds of the model.                                                    *)
(***************************************************************************)
MaxEdges == 3       \* add_edge calls accepted in the container specification
MaxChain == 3       \* longest linear chain that is run
MaxIter == 6        \* largest max_iterations argument that is tried
MaxRuns == 2        \* run() calls on one graph object
MaxCalls == 2       \* WorkflowExecutor.execute calls in the executor specification
MaxSortEdges == 4   \* edges of the graphs that are sorted topologically

(***************************************************************************)
(* Values held in the state dict and in Node.result.  Every value has the  *)
(* same shape so that any two can be compared.                             *)
(***************************************************************************)
EmptyMap == [k \in {} |-> 0]

NoneV == [tag |-> "none", id |-> "", n |-> 0, snap |-> EmptyMap]
IntV(i) == [tag |-> "int", id |-> "", n |-> i, snap |-> EmptyMap]
DataV(d) == [tag |-> "data", id |-> d, n |-> 0, snap |-> EmptyMap]
\* {"node_id": node.id, "type": node.type.value}
DescV(id, ty) == [tag |-> ty, id |-> id, n |-> 0, snap |-> EmptyMap]
\* what AgentRuntime.execute returned for the agent
AgentV(id) == [tag |-> "agent_result", id |-> id, n |-> 0, snap |-> EmptyMap]
\* the live state dict of run number r itself (a reference, not a copy)
StateRefV(r) == [tag |-> "state_ref", id |-> "", n |-> r, snap |-> EmptyMap]
\* copy.deepcopy(state)
SnapV(s) == [tag |-> "snapshot", id |-> "", n |-> 0, snap |-> s]

\* a tuple and a list with the same items
TupleV(id) == [tag |-> "tuple", id |-> id, n |-> 0, snap |-> EmptyMap]
ListV(id) == [tag |-> "list", id |-> id, n |-> 0, snap |-> EmptyMap]

\* dict.get(key, default)
Get(d, key, default) == IF key \in DOMAIN d THEN d[key] ELSE default

\* d[key] = v
Put(d, key, v) == [k \in (DOMAIN d) \cup {key} |-> IF k = key THEN v ELSE d[k]]

NoError == << >>

(***************************************************************************)
(* nodes.py                                                                *)
(***************************************************************************)
NodeType == {"agent", "tool", "condition", "subgraph", "human", "input", "output"}

NodeStatus == {"pending", "running", "completed", "failed", "skipped"}

\* Node(id, type): status PENDING, result None, error None
Node(ty) == [type |-> ty, status |-> "pending", result |-> NoneV, error |-> NoError]

(***************************************************************************)
(* edges.py                                                                *)
(***************************************************************************)
\* Edge condition predicates: none, a constant, one that raises, or
\* `condition in state` (WorkflowExecutor._evaluate_condition)
NoCond == [kind |-> "none", key |-> ""]
ConstCond(b) == [kind |-> IF b THEN "true" ELSE "false", key |-> ""]
RaiseCond == [kind |-> "raise", key |-> ""]
HasCond(k) == [kind |-> "has", key |-> k]

Edge(s, t, c, par, prio) ==
    [source |-> s, target |-> t, condition |-> c, parallel |-> par, priority |-> prio]

\* ParallelEdge(source, target): metadata = {"parallel": True}
ParallelEdge(s, t) == Edge(s, t, NoCond, TRUE, 0)

\* a predicate that raises counted as satisfied
evaluate_condition_raise_taken(e, st) ==
    CASE e.condition.kind = "none" -> TRUE
      [] e.condition.kind = "true" -> TRUE
      [] e.condition.kind = "false" -> FALSE
      [] e.condition.kind = "raise" -> TRUE
      [] e.condition.kind = "has" -> e.condition.key \in DOMAIN st

\* Edge.evaluate_condition
evaluate_condition(e, st) ==
    CASE e.condition.kind = "none" -> TRUE
      [] e.condition.kind = "true" -> TRUE
      [] e.condition.kind = "false" -> FALSE
      [] e.condition.kind = "raise" -> FALSE
      [] e.condition.kind = "has" -> e.condition.key \in DOMAIN st

(***************************************************************************)
(* engine.py: the graph container                                          *)
(***************************************************************************)
\* the fields of a Graph object, for the operators below
GraphOf(ns, ord, es, adj, radj) ==
    [nodes |-> ns, node_order |-> ord, edges |-> es,
     adjacency_list |-> adj, reverse_adjacency |-> radj]

\* Graph.__init__
EmptyGraph == GraphOf(EmptyMap, << >>, << >>, EmptyMap, EmptyMap)

\* defaultdict(list)[key].append(x)
AppendAt(d, key, x) == Put(d, key, Append(Get(d, key, << >>), x))

\* add_node that stores the node before it looks for a duplicate
add_node_store_first(G, id, ty) ==
    IF id \in DOMAIN G.nodes
    THEN [ok |-> FALSE, err |-> "ValueError: node exists",
          graph |-> [G EXCEPT !.nodes = Put(G.nodes, id, Node(ty))]]
    ELSE [ok |-> TRUE, err |-> "",
          graph |-> [G EXCEPT !.nodes = Put(G.nodes, id, Node(ty)),
                              !.node_order = Append(G.node_order, id)]]

\* Graph.add_node: [ok, graph]
add_node(G, id, ty) ==
    IF id \in DOMAIN G.nodes
    THEN [ok |-> FALSE, err |-> "ValueError: node exists", graph |-> G]
    ELSE [ok |-> TRUE, err |-> "",
          graph |-> [G EXCEPT !.nodes = Put(G.nodes, id, Node(ty)),
                              !.node_order = Append(G.node_order, id)]]

\* add_edge with the target checked after the edge has been stored
add_edge_late_check(G, e) ==
    IF e.source \notin DOMAIN G.nodes
    THEN [ok |-> FALSE, err |-> "ValueError: source not found", graph |-> G]
    ELSE LET H == [G EXCEPT !.edges = Append(G.edges, e),
                            !.adjacency_list = AppendAt(G.adjacency_list, e.source, e)]
         IN IF e.target \notin DOMAIN G.nodes
            THEN [ok |-> FALSE, err |-> "ValueError: target not found", graph |-> H]
            ELSE [ok |-> TRUE, err |-> "",
                  graph |-> [H EXCEPT !.reverse_adjacency =
                                 AppendAt(G.reverse_adjacency, e.target, e.source)]]

\* Graph.add_edge
add_edge(G, e) ==
    IF e.source \notin DOMAIN G.nodes
    THEN [ok |-> FALSE, err |-> "ValueError: source not found", graph |-> G]
    ELSE IF e.target \notin DOMAIN G.nodes
    THEN [ok |-> FALSE, err |-> "ValueError: target not found", graph |-> G]
    ELSE [ok |-> TRUE, err |-> "",
          graph |-> [G EXCEPT !.edges = Append(G.edges, e),
                              !.adjacency_list = AppendAt(G.adjacency_list, e.source, e),
                              !.reverse_adjacency =
                                  AppendAt(G.reverse_adjacency, e.target, e.source)]]

\* Graph.get_outgoing_edges
get_outgoing_edges(adj, id) == Get(adj, id, << >>)

\* Graph.get_incoming_nodes
get_incoming_nodes(radj, id) == Get(radj, id, << >>)

\* the record of a call of the container: operation, arguments, outcome
Call(op, id, e, ok, err) == [op |-> op, id |-> id, edge |-> e, ok |-> ok, err |-> err]

NoEdge == [source |-> "", target |-> "", condition |-> NoCond, parallel |-> FALSE,
           priority |-> 0]

NoCall == Call("none", "", NoEdge, TRUE, "")

\* no checkpoint has been loaded
NoCheckpoint == [name |-> "", workflow_name |-> "", state |-> EmptyMap,
                 node_statuses |-> EmptyMap]

ThisGraph == GraphOf(nodes, node_order, edges, adjacency_list, reverse_adjacency)

SetGraph(G) ==
    /\ nodes' = G.nodes
    /\ node_order' = G.node_order
    /\ edges' = G.edges
    /\ adjacency_list' = G.adjacency_list
    /\ reverse_adjacency' = G.reverse_adjacency


(***************************************************************************)
(* engine.py: validate, entry points                                       *)
(***************************************************************************)
Range(f) == {f[i] : i \in DOMAIN f}

\* Graph._dfs_visit: the nodes reachable from start along edges in either direction
RECURSIVE DfsClosure(_, _)
DfsClosure(G, visited) ==
    LET next == visited \cup
                {e.target : e \in UNION {Range(get_outgoing_edges(G.adjacency_list, n)) :
                                          n \in visited}} \cup
                UNION {Range(get_incoming_nodes(G.reverse_adjacency, n)) : n \in visited}
    IN IF next = visited THEN visited ELSE DfsClosure(G, next)

dfs_visit(G, start) == DfsClosure(G, {start})

\* Graph.validate: [ok, err, warning]
validate(G) ==
    IF DOMAIN G.nodes = {}
    THEN [ok |-> FALSE, err |-> "Graph must have at least one node", warning |-> FALSE]
    ELSE LET visited == dfs_visit(G, G.node_order[1])
             warn == Cardinality(visited) # Cardinality(DOMAIN G.nodes)
         IN IF \E i \in DOMAIN G.edges :
                   \/ G.edges[i].source \notin DOMAIN G.nodes
                   \/ G.edges[i].target \notin DOMAIN G.nodes
            THEN [ok |-> FALSE, err |-> "Edge references non-existent node",
                  warning |-> warn]
            ELSE [ok |-> TRUE, err |-> "", warning |-> warn]

\* the elements of a list that satisfy a test, in list order
RECURSIVE SelectSeqIdx(_, _)
SelectSeqIdx(s, keep) ==
    IF s = << >> THEN << >>
    ELSE LET rest == SelectSeqIdx(SubSeq(s, 1, Len(s) - 1), keep)
         IN IF s[Len(s)] \in keep THEN Append(rest, s[Len(s)]) ELSE rest

\* every node taken as an entry point
EntryPointsAll(G) == G.node_order

\* run, lines 228-237: nodes without incoming edge, else the INPUT nodes, in dict order
EntryPoints(G) ==
    LET noin == {n \in DOMAIN G.nodes : get_incoming_nodes(G.reverse_adjacency, n) = << >>}
        inputs == {n \in DOMAIN G.nodes : G.nodes[n].type = "input"}
    IN IF noin # {} THEN SelectSeqIdx(G.node_order, noin)
       ELSE SelectSeqIdx(G.node_order, inputs)

(***************************************************************************)
(* engine.py: topological_sort                                             *)
(***************************************************************************)
\* lines 176-179: the number of edges of Graph.edges that end in each node
RECURSIVE InDegree(_, _)
InDegree(G, es) ==
    IF es = << >> THEN [n \in DOMAIN G.nodes |-> 0]
    ELSE [InDegree(G, SubSeq(es, 1, Len(es) - 1)) EXCEPT ![es[Len(es)].target] = @ + 1]

\* lines 188-191: the outgoing edges of the popped node are taken in list order;
\* s = [in_degree, queue]
RECURSIVE Relax(_, _)
Relax(s, es) ==
    IF es = << >> THEN s
    ELSE LET tgt == es[1].target
             deg == [s.in_degree EXCEPT ![tgt] = @ - 1]
         IN Relax([in_degree |-> deg,
                   queue |-> IF deg[tgt] = 0 THEN Append(s.queue, tgt) ELSE s.queue],
                  Tail(es))

\* lines 184-191: the loop over the queue
RECURSIVE Kahn(_, _, _)
Kahn(G, s, result) ==
    IF s.queue = << >> THEN result
    ELSE LET node_id == Head(s.queue)
         IN Kahn(G,
                 Relax([s EXCEPT !.queue = Tail(@)],
                       get_outgoing_edges(G.adjacency_list, node_id)),
                 Append(result, node_id))

\* the length test left out
SortCompleteAlways(G, result) == TRUE

\* line 193: every node was emitted
SortComplete(G, result) == Len(result) = Cardinality(DOMAIN G.nodes)

\* Graph.topological_sort: [ok, err, result]
topological_sort(G) ==
    LET in_degree == InDegree(G, G.edges)
        queue == SelectSeqIdx(G.node_order, {n \in DOMAIN G.nodes : in_degree[n] = 0})
        result == Kahn(G, [in_degree |-> in_degree, queue |-> queue], << >>)
    IN IF SortComplete(G, result)
       THEN [ok |-> TRUE, err |-> "", result |-> result]
       ELSE [ok |-> FALSE, err |-> "Graph contains cycles", result |-> << >>]

(***************************************************************************)
(* engine.py: frames and tasks of the traversal                            *)
(***************************************************************************)
\* error messages are lists of words: str(e) of the innermost exception, with one
\* "Node <id> failed:" prefix per enclosing _execute_node
MaxIterMsg == <<"Maximum iterations exceeded">>
AgentFailedMsg == <<"agent execution failed">>
AgentMissingMsg == <<"Agent not found in registry">>
EmptyGraphMsg == <<"Cannot run empty graph">>
NoEntryMsg == <<"No entry point found in graph">>
CompareTypeErrorMsg == <<"TypeError: '>=' not supported between instances of 'dict' and 'int'">>
ResumeTypeErrorMsg == <<"TypeError: run() got an unexpected keyword argument 'resume_from'">>

\* GraphExecutionError(f"Node {node_id} failed: {e}")
Wrap(id, e) == <<id>> \o e

\* a frame of the coroutine run()
RunFrame == [kind |-> "run", node |-> "", pc |-> "entries", i |-> 1, kids |-> {},
             followed |-> << >>]

\* a frame of the coroutine _execute_node(node_id, ...), at its first line
NodeFrame(id) == [kind |-> "node", node |-> id, pc |-> "enter", i |-> 1, kids |-> {},
                  followed |-> << >>]

\* an asyncio task; st: "ready" (created), "run" (holds the processor), "logic"
\* (suspended in the node logic), "gather" (suspended in asyncio.gather), "done"
Task(frame, parent) == [stack |-> <<frame>>, st |-> "ready", exc |-> NoError,
                        raising |-> FALSE, parent |-> parent, fin |-> 0]

Top(t) == tasks[t].stack[Len(tasks[t].stack)]

NumDone == Cardinality({t \in DOMAIN tasks : tasks[t].st = "done"})

\* the task may execute its next statement
Holds(t) ==
    /\ t \in DOMAIN tasks
    /\ \/ running = t
       \/ running = 0 /\ tasks[t].st = "ready"

\* the top frame replaced; the task keeps the processor
WithTop(t, f) ==
    LET s == tasks[t].stack
    IN [tasks EXCEPT ![t] = [@ EXCEPT !.stack = [s EXCEPT ![Len(s)] = f], !.st = "run"]]

\* a frame pushed on the (possibly replaced) top frame: an awaited coroutine call
WithCall(t, f, callee) ==
    LET s == tasks[t].stack
    IN [tasks EXCEPT ![t] =
          [@ EXCEPT !.stack = Append([s EXCEPT ![Len(s)] = f], callee), !.st = "run"]]

\* the top frame returns (e = NoError) or raises e; the task ends with its last frame
WithPop(t, e) ==
    LET s == SubSeq(tasks[t].stack, 1, Len(tasks[t].stack) - 1)
    IN [tasks EXCEPT ![t] =
          [@ EXCEPT !.stack = s, !.exc = e, !.raising = (e # NoError),
                    !.st = IF s = << >> THEN "done" ELSE "run",
                    !.fin = IF s = << >> THEN NumDone + 1 ELSE 0]]

\* who holds the processor after task t popped a frame
AfterPop(t) == IF Len(tasks[t].stack) = 1 THEN 0 ELSE t

\* the edges left in insertion order
Unsorted(es) == es

\* sorted(edges, key=lambda e: e.priority): stable, ascending
RECURSIVE SortedByPriority(_)
SortedByPriority(es) ==
    IF es = << >> THEN << >>
    ELSE LET m == CHOOSE i \in DOMAIN es :
                    /\ \A j \in DOMAIN es : es[i].priority <= es[j].priority
                    /\ \A j \in DOMAIN es : es[j].priority = es[i].priority => i <= j
             rest == [k \in 1..(Len(es) - 1) |-> IF k < m THEN es[k] ELSE es[k + 1]]
         IN <<es[m]>> \o SortedByPriority(rest)

\* the sublist of the edges that are (not) flagged parallel
RECURSIVE FilterParallel(_, _)
FilterParallel(es, flag) ==
    IF es = << >> THEN << >>
    ELSE LET rest == FilterParallel(SubSeq(es, 1, Len(es) - 1), flag)
         IN IF es[Len(es)].parallel = flag THEN Append(rest, es[Len(es)]) ELSE rest

\* the sublist of the edges whose condition passes on st
RECURSIVE FilterPassing(_, _)
FilterPassing(es, st) ==
    IF es = << >> THEN << >>
    ELSE LET rest == FilterPassing(SubSeq(es, 1, Len(es) - 1), st)
         IN IF evaluate_condition(es[Len(es)], st) THEN Append(rest, es[Len(es)]) ELSE rest


(***************************************************************************)
(* Observations kept beside the program state.                             *)
(***************************************************************************)
\* exec: calls of _execute_node_logic per node in this run; order: the nodes in the
\* order of those calls; visits: entries of _execute_node that passed the budget
\* check; writes: assignments state[node_id] = result per node;
\* failed: the nodes whose own logic raised; before: Graph.nodes when run was called
\* saved: per checkpoint name, the state and the node statuses that were handed to
\* save_checkpoint; input, supplied: the arguments input_data and state of run;
\* taken: the edges whose condition evaluated true
NewHist(ns) == [exec |-> [n \in DOMAIN ns |-> 0], order |-> << >>, visits |-> 0,
                writes |-> [n \in DOMAIN ns |-> 0], failed |-> {}, before |-> ns,
                saved |-> EmptyMap, input |-> "", supplied |-> EmptyMap, taken |-> {}]

LogicCalled(h, n) == [h EXCEPT !.exec[n] = @ + 1, !.order = Append(@, n)]

(***************************************************************************)
(* engine.py: Graph.run                                                    *)
(***************************************************************************)
\* the dict a caller passes as `state`: None, a dict that holds a tuple, the dict the
\* previous run worked on, or a dict that already holds a task and stale bookkeeping
\* keys
SuppliedState(sarg) ==
    IF sarg = "none" THEN EmptyMap
    ELSE IF sarg = "tuple" THEN Put(EmptyMap, "pair", TupleV("p"))
    ELSE IF sarg = "previous" THEN state
    ELSE Put(Put(Put(EmptyMap, "task", DataV("t1")), "iterations", IntV(7)),
             "input", DataV("stale"))

\* the counter of the supplied state carried on
InitialStateKeepCounter(supplied, input) ==
    LET st == Put(supplied, "input", DataV(input))
    IN IF "iterations" \in DOMAIN st THEN st ELSE Put(st, "iterations", IntV(0))

\* lines 223-226: state["input"] = input_data; state["iterations"] = 0
InitialState(supplied, input) ==
    Put(Put(supplied, "input", DataV(input)), "iterations", IntV(0))

RunRaises(msg) ==
    /\ outcome' = "raised"
    /\ run_error' = msg
    /\ tasks' = << >>
    /\ running' = 0
    /\ UNCHANGED entry_points

\* run(input_data, max_iterations, state), lines 214-249 up to the first _execute_node
Run(input, maxit, sarg) ==
    /\ outcome # "running"
    /\ runs < MaxRuns
    /\ running = 0
    /\ \A t \in DOMAIN tasks : tasks[t].st = "done"
    /\ runs' = runs + 1
    /\ max_iterations' = maxit
    /\ hist' = [NewHist(nodes) EXCEPT !.saved = hist.saved, !.input = input,
                                      !.supplied = SuppliedState(sarg)]
    /\ LET G == ThisGraph
           v == validate(G)
           eps == EntryPoints(G)
       IN IF DOMAIN nodes = {}
          THEN RunRaises(EmptyGraphMsg) /\ UNCHANGED state
          ELSE IF ~v.ok
          THEN RunRaises(<<v.err>>) /\ UNCHANGED state
          ELSE /\ state' = InitialState(SuppliedState(sarg), input)
               /\ IF eps = << >>
                  THEN RunRaises(NoEntryMsg)
                  ELSE /\ entry_points' = eps
                       /\ tasks' = <<[Task(RunFrame, 0) EXCEPT !.st = "run"]>>
                       /\ running' = 1
                       /\ outcome' = "running"
                       /\ run_error' = NoError
    /\ UNCHANGED <<graph_vars, call_vars, enhanced, registry>>

\* run, lines 248-263: the loop over the entry points and the return
RunStep(t) ==
    /\ Holds(t)
    /\ ~tasks[t].raising
    /\ Top(t).kind = "run"
    /\ LET f == Top(t)
       IN IF f.i > Len(entry_points)
          THEN /\ tasks' = WithPop(t, NoError)
               /\ running' = 0
               /\ outcome' = "returned"
          ELSE /\ tasks' = WithCall(t, [f EXCEPT !.i = @ + 1], NodeFrame(entry_points[f.i]))
               /\ running' = t
               /\ UNCHANGED outcome
    /\ UNCHANGED <<graph_vars, call_vars, enhanced, registry, state, max_iterations,
                   entry_points, run_error, runs, hist>>

\* run, lines 250-253: an exception of _execute_node leaves run
RunExcept(t) ==
    /\ running = t
    /\ tasks[t].raising
    /\ tasks[t].st # "done"
    /\ Top(t).kind = "run"
    /\ outcome' = "raised"
    /\ run_error' = tasks[t].exc
    /\ tasks' = WithPop(t, tasks[t].exc)
    /\ running' = 0
    /\ UNCHANGED <<graph_vars, call_vars, enhanced, registry, state, max_iterations,
                   entry_points, runs, hist>>

(***************************************************************************)
(* engine.py: Graph._execute_node                                          *)
(***************************************************************************)
\* state.get("iterations", 0)
Iterations(st) == Get(st, "iterations", IntV(0)).n

\* line 278: the counter can be compared with max_iterations
CounterIsNumber(st) == Get(st, "iterations", IntV(0)).tag = "int"

\* the budget check off by one
BudgetExhaustedLate(st, maxit) == Iterations(st) > maxit

\* line 278: the budget check
BudgetExhausted(st, maxit) == Iterations(st) >= maxit

\* the skip left out
AlreadyCompletedNever(n) == FALSE

\* line 286: skip if already completed
AlreadyCompleted(n) == nodes[n].status = "completed"

\* lines 278-290: budget check, increment, skip of a completed node, status RUNNING
Enter(t) ==
    /\ Holds(t)
    /\ ~tasks[t].raising
    /\ Top(t).kind = "node"
    /\ Top(t).pc = "enter"
    /\ LET f == Top(t)
           n == f.node
       IN IF ~CounterIsNumber(state)
          THEN /\ tasks' = WithPop(t, CompareTypeErrorMsg)
               /\ running' = AfterPop(t)
               /\ UNCHANGED <<state, nodes, hist>>
          ELSE IF BudgetExhausted(state, max_iterations)
          THEN /\ tasks' = WithPop(t, MaxIterMsg)
               /\ running' = AfterPop(t)
               /\ UNCHANGED <<state, nodes, hist>>
          ELSE /\ state' = Put(state, "iterations", IntV(Iterations(state) + 1))
               /\ hist' = [hist EXCEPT !.visits = @ + 1]
               /\ IF AlreadyCompleted(n)
                  THEN /\ tasks' = WithPop(t, NoError)
                       /\ running' = AfterPop(t)
                       /\ UNCHANGED nodes
                  ELSE /\ nodes' = [nodes EXCEPT ![n].status = "running"]
                       /\ tasks' = WithTop(t, [f EXCEPT !.pc = "call_logic"])
                       /\ running' = t
    /\ UNCHANGED <<node_order, edges, adjacency_list, reverse_adjacency, call_vars,
                   enhanced, registry, max_iterations, entry_points, outcome, run_error,
                   runs>>

\* Graph._execute_node_logic and EnhancedGraph._execute_node_logic for the node
\* types that return without awaiting anything
execute_node_logic(n, st) ==
    CASE nodes[n].type = "input" -> Get(st, "input", NoneV)
      [] nodes[n].type = "output" -> IF enhanced THEN SnapV(st) ELSE StateRefV(runs)
      [] OTHER -> DescV(n, nodes[n].type)

\* lines 301-312: the result is stored, the node is COMPLETED
Completed(t, r) ==
    LET f == Top(t)
        n == f.node
    IN /\ nodes' = [nodes EXCEPT ![n].result = r, ![n].status = "completed"]
       /\ state' = Put(state, n, r)
       /\ tasks' = WithTop(t, [f EXCEPT !.pc = "edges"])
       /\ running' = t

\* line 300: the node logic is called; the AGENT node of an EnhancedGraph looks its
\* agent up and awaits AgentRuntime.execute
CallLogic(t) ==
    /\ running = t
    /\ ~tasks[t].raising
    /\ Top(t).kind = "node"
    /\ Top(t).pc = "call_logic"
    /\ LET f == Top(t)
           n == f.node
       IN IF enhanced /\ nodes[n].type = "agent"
          THEN IF n \notin DOMAIN registry
               THEN /\ tasks' = [tasks EXCEPT ![t].raising = TRUE,
                                              ![t].exc = AgentMissingMsg]
                    /\ running' = t
                    /\ hist' = LogicCalled(hist, n)
                    /\ UNCHANGED <<nodes, state>>
               ELSE /\ tasks' = [WithTop(t, [f EXCEPT !.pc = "logic"])
                                    EXCEPT ![t].st = "logic"]
                    /\ running' = 0
                    /\ hist' = LogicCalled(hist, n)
                    /\ UNCHANGED <<nodes, state>>
          ELSE /\ Completed(t, execute_node_logic(n, state))
               /\ hist' = [LogicCalled(hist, n) EXCEPT !.writes[n] = @ + 1]
    /\ UNCHANGED <<node_order, edges, adjacency_list, reverse_adjacency, call_vars,
                   enhanced, registry, max_iterations, entry_points, outcome, run_error,
                   runs>>

\* the external agent call of a suspended node logic finishes, with a result or
\* with an exception, and the task is resumed
LogicDone(t, ok) ==
    /\ running = 0
    /\ t \in DOMAIN tasks
    /\ tasks[t].st = "logic"
    /\ IF ok
       THEN /\ Completed(t, AgentV(Top(t).node))
            /\ hist' = [hist EXCEPT !.writes[Top(t).node] = @ + 1]
       ELSE /\ tasks' = [tasks EXCEPT ![t].raising = TRUE, ![t].exc = AgentFailedMsg,
                                      ![t].st = "run"]
            /\ running' = t
            /\ UNCHANGED <<nodes, state, hist>>
    /\ UNCHANGED <<node_order, edges, adjacency_list, reverse_adjacency, call_vars,
                   enhanced, registry, max_iterations, entry_points, outcome, run_error,
                   runs>>

\* the tasks asyncio.gather creates for the coroutines _execute_node(edge.target)
NewTasks(parent, es) == [k \in 1..Len(es) |-> Task(NodeFrame(es[k].target), parent)]

\* lines 315-328: the parallel edges whose condition passes are dispatched together
Dispatch(t) ==
    /\ running = t
    /\ ~tasks[t].raising
    /\ Top(t).kind = "node"
    /\ Top(t).pc = "edges"
    /\ LET f == Top(t)
           outgoing_edges == get_outgoing_edges(adjacency_list, f.node)
           parallel_edges == FilterParallel(outgoing_edges, TRUE)
           passing == FilterPassing(parallel_edges, state)
           kids == (Len(tasks) + 1)..(Len(tasks) + Len(passing))
       IN /\ hist' = [hist EXCEPT !.taken = @ \cup Range(passing)]
          /\ IF passing # << >>
             THEN /\ tasks' = [WithTop(t, [f EXCEPT !.pc = "gather", !.kids = kids])
                                  EXCEPT ![t].st = "gather"] \o NewTasks(t, passing)
                  /\ running' = 0
             ELSE /\ tasks' = WithTop(t, [f EXCEPT !.pc = "seq", !.i = 1])
                  /\ running' = t
    /\ UNCHANGED <<graph_vars, call_vars, enhanced, registry, state, max_iterations,
                   entry_points, outcome, run_error, runs>>

\* the children of a gather that ended with an exception
FailedKids(t) == {k \in Top(t).kids : tasks[k].st = "done" /\ tasks[k].raising}

\* gather that returns with the first child that finishes
GatherAnyDone(t) == \E k \in Top(t).kids : tasks[k].st = "done"

\* gather that never completes
GatherNever(t) == FALSE

\* every child of the gather has finished
GatherDone(t) == \A k \in Top(t).kids : tasks[k].st = "done"

\* line 328: gather resumes its awaiter with the first exception of a child, or
\* when every child has finished.  The first steps of all children were scheduled
\* when gather created them, ahead of any wake-up of the awaiter, so every child has
\* run up to its first suspension by then.
WakeGather(t) ==
    /\ running = 0
    /\ t \in DOMAIN tasks
    /\ tasks[t].st = "gather"
    /\ \A k \in Top(t).kids : tasks[k].st # "ready"
    /\ LET f == Top(t)
           failed == FailedKids(t)
       IN IF failed # {}
          THEN LET first == CHOOSE k \in failed : \A j \in failed : tasks[k].fin <= tasks[j].fin
               IN tasks' = [tasks EXCEPT ![t].raising = TRUE, ![t].exc = tasks[first].exc,
                                         ![t].st = "run"]
          ELSE /\ GatherDone(t)
               /\ tasks' = WithTop(t, [f EXCEPT !.pc = "seq", !.i = 1])
    /\ running' = t
    /\ UNCHANGED <<graph_vars, call_vars, enhanced, registry, state, max_iterations,
                   entry_points, outcome, run_error, runs, hist>>

\* lines 331-333: the sequential edges, one at a time in priority order
FollowSequential(t) ==
    /\ running = t
    /\ ~tasks[t].raising
    /\ Top(t).kind = "node"
    /\ Top(t).pc = "seq"
    /\ LET f == Top(t)
           outgoing_edges == get_outgoing_edges(adjacency_list, f.node)
           sequential_edges == SortedByPriority(FilterParallel(outgoing_edges, FALSE))
       IN IF f.i > Len(sequential_edges)
          THEN /\ tasks' = WithPop(t, NoError)
               /\ running' = AfterPop(t)
               /\ hist' = hist
          ELSE LET edge == sequential_edges[f.i]
               IN IF evaluate_condition(edge, state)
                  THEN /\ tasks' = WithCall(t, [f EXCEPT !.i = @ + 1,
                                                         !.followed = Append(@, edge)],
                                            NodeFrame(edge.target))
                       /\ running' = t
                       /\ hist' = [hist EXCEPT !.taken = @ \cup {edge}]
                  ELSE /\ tasks' = WithTop(t, [f EXCEPT !.i = @ + 1])
                       /\ running' = t
                       /\ hist' = hist
    /\ UNCHANGED <<graph_vars, call_vars, enhanced, registry, state, max_iterations,
                   entry_points, outcome, run_error, runs>>

\* the except clause without its raise
NodeExceptSwallow(t) ==
    /\ running = t
    /\ tasks[t].raising
    /\ tasks[t].st # "done"
    /\ Top(t).kind = "node"
    /\ LET n == Top(t).node
           e == tasks[t].exc
       IN /\ nodes' = [nodes EXCEPT ![n].status = "failed", ![n].error = e]
          /\ tasks' = WithPop(t, NoError)
          /\ running' = AfterPop(t)
          /\ hist' = IF Top(t).pc \in {"call_logic", "logic"}
                     THEN [hist EXCEPT !.failed = @ \cup {n}]
                     ELSE hist
    /\ UNCHANGED <<node_order, edges, adjacency_list, reverse_adjacency, call_vars,
                   enhanced, registry, state, max_iterations, entry_points, outcome,
                   run_error, runs>>

\* lines 335-344: the except clause of _execute_node
NodeExcept(t) ==
    /\ running = t
    /\ tasks[t].raising
    /\ tasks[t].st # "done"
    /\ Top(t).kind = "node"
    /\ LET n == Top(t).node
           e == tasks[t].exc
       IN /\ nodes' = [nodes EXCEPT ![n].status = "failed", ![n].error = e]
          /\ tasks' = WithPop(t, Wrap(n, e))
          /\ running' = AfterPop(t)
          /\ hist' = IF Top(t).pc \in {"call_logic", "logic"}
                     THEN [hist EXCEPT !.failed = @ \cup {n}]
                     ELSE hist
    /\ UNCHANGED <<node_order, edges, adjacency_list, reverse_adjacency, call_vars,
                   enhanced, registry, state, max_iterations, entry_points, outcome,
                   run_error, runs>>


(***************************************************************************)
(* The graphs that are run.  Each is built with add_node and add_edge.     *)
(***************************************************************************)
RECURSIVE AddNodes(_, _)
AddNodes(G, ns) ==
    IF ns = << >> THEN G
    ELSE add_node(AddNodes(G, SubSeq(ns, 1, Len(ns) - 1)),
                  ns[Len(ns)][1], ns[Len(ns)][2]).graph

RECURSIVE AddEdges(_, _)
AddEdges(G, es) ==
    IF es = << >> THEN G
    ELSE add_edge(AddEdges(G, SubSeq(es, 1, Len(es) - 1)), es[Len(es)]).graph

Build(ns, es) == AddEdges(AddNodes(EmptyGraph, ns), es)

\* a plain Edge(source, target)
PlainEdge(s, t) == Edge(s, t, NoCond, FALSE, 0)

ChainIds == <<"a", "b", "c", "d", "e">>

ChainType(k, n) == IF k = 1 THEN "input" ELSE IF k = n THEN "output" ELSE "agent"

\* a -> b -> ... : n nodes joined by n-1 unconditional sequential edges
ChainGraph(n) ==
    Build([k \in 1..n |-> <<ChainIds[k], ChainType(k, n)>>],
          [k \in 1..(n - 1) |-> PlainEdge(ChainIds[k], ChainIds[k + 1])])

\* s fans out to A and B over two unconditional parallel edges
ForkGraph ==
    Build(<<<<"s", "input">>, <<"A", "agent">>, <<"B", "agent">>>>,
          <<ParallelEdge("s", "A"), ParallelEdge("s", "B")>>)

\* two parallel branches that both lead to the AGENT node j
JoinGraph ==
    Build(<<<<"s", "input">>, <<"A", "tool">>, <<"B", "tool">>, <<"j", "agent">>>>,
          <<ParallelEdge("s", "A"), ParallelEdge("s", "B"),
            PlainEdge("A", "j"), PlainEdge("B", "j")>>)

\* the fork joined again: A and B both lead to j
DiamondGraph ==
    Build(<<<<"s", "input">>, <<"A", "agent">>, <<"B", "agent">>, <<"j", "output">>>>,
          <<ParallelEdge("s", "A"), ParallelEdge("s", "B"),
            PlainEdge("A", "j"), PlainEdge("B", "j")>>)

\* s has sequential edges of priority 2 (added first) and 1, and a tie at 2
PriorityGraph ==
    Build(<<<<"s", "input">>, <<"A", "agent">>, <<"B", "agent">>, <<"C", "tool">>>>,
          <<Edge("s", "B", NoCond, FALSE, 2), Edge("s", "A", NoCond, FALSE, 1),
            Edge("s", "C", NoCond, FALSE, 2)>>)

\* a true 2-cycle: no node is without incoming edge, the INPUT node is the entry
CycleGraph ==
    Build(<<<<"A", "input">>, <<"B", "agent">>>>,
          <<PlainEdge("A", "B"), PlainEdge("B", "A")>>)

\* the same cycle without an INPUT node: no entry point
NoEntryGraph ==
    Build(<<<<"A", "agent">>, <<"B", "agent">>>>,
          <<PlainEdge("A", "B"), PlainEdge("B", "A")>>)

\* conditions that raise, fail and pass, and a self-loop
ConditionGraph ==
    Build(<<<<"s", "input">>, <<"A", "agent">>, <<"B", "tool">>>>,
          <<Edge("s", "A", RaiseCond, FALSE, 0), Edge("s", "B", HasCond("s"), FALSE, 0),
            Edge("B", "A", HasCond("task"), FALSE, 0), Edge("B", "B", NoCond, FALSE, 1),
            Edge("s", "A", RaiseCond, TRUE, 0), Edge("B", "A", RaiseCond, TRUE, 0),
            Edge("B", "s", NoCond, TRUE, 0)>>)

\* parallel and sequential edges on one node, two entry points
MixedGraph ==
    Build(<<<<"s", "input">>, <<"A", "agent">>, <<"B", "tool">>, <<"t", "input">>>>,
          <<Edge("s", "B", NoCond, FALSE, 0), Edge("s", "A", NoCond, TRUE, 5),
            Edge("s", "B", ConstCond(TRUE), TRUE, 1), Edge("t", "B", NoCond, FALSE, 0)>>)

\* conditions on keys that the branches and the earlier siblings write
TimingGraph ==
    Build(<<<<"s", "input">>, <<"A", "tool">>, <<"B", "tool">>, <<"C", "tool">>>>,
          <<Edge("s", "A", HasCond("s"), TRUE, 9), Edge("s", "B", HasCond("A"), TRUE, 0),
            Edge("s", "B", HasCond("C"), FALSE, 1), Edge("s", "C", HasCond("A"), FALSE, 0)>>)

RunGraphs ==
    {ChainGraph(n) : n \in 0..MaxChain} \cup
    {ForkGraph, DiamondGraph, JoinGraph, PriorityGraph, CycleGraph, NoEntryGraph,
     ConditionGraph, MixedGraph, TimingGraph}

AgentIds(G) == {n \in DOMAIN G.nodes : G.nodes[n].type = "agent"}

\* the agent object created for node id by the execute call c (0: by the caller)
AgentHandle(c, id) == [id |-> id, call |-> c]

\* a registry that holds an agent of the caller for every id in ids
Registered(ids) == [a \in ids |-> AgentHandle(0, a)]

(***************************************************************************)
(* The traversal specification: a graph is built, then run() is called.    *)
(***************************************************************************)
IdleRun ==
    /\ state = EmptyMap
    /\ max_iterations = 0
    /\ entry_points = << >>
    /\ tasks = << >>
    /\ running = 0
    /\ outcome = "idle"
    /\ run_error = NoError
    /\ runs = 0
    /\ last_call = NoCall
    /\ calls = << >>
    /\ directory = EmptyMap
    /\ checkpoint = NoCheckpoint
    /\ topo_result = << >>

InitRun ==
    /\ \E G \in RunGraphs :
          /\ nodes = G.nodes
          /\ node_order = G.node_order
          /\ edges = G.edges
          /\ adjacency_list = G.adjacency_list
          /\ reverse_adjacency = G.reverse_adjacency
          /\ registry \in {Registered(AgentIds(G)), EmptyMap}
          /\ hist = NewHist(G.nodes)
    /\ enhanced \in BOOLEAN
    /\ IdleRun

Inputs == {"in1"}

\* the budgets run is called with: any on the first two calls on a graph, none or
\* the largest on the later calls
Budgets == IF runs <= 1 THEN 0..MaxIter ELSE {0, MaxIter}

NextRun ==
    \/ \E maxit \in Budgets, sarg \in {"none", "given", "previous"}, input \in Inputs :
          Run(input, maxit, sarg)
    \/ \E t \in DOMAIN tasks : RunStep(t)
    \/ \E t \in DOMAIN tasks : RunExcept(t)
    \/ \E t \in DOMAIN tasks : Enter(t)
    \/ \E t \in DOMAIN tasks : CallLogic(t)
    \/ \E t \in DOMAIN tasks, ok \in BOOLEAN : LogicDone(t, ok)
    \/ \E t \in DOMAIN tasks : Dispatch(t)
    \/ \E t \in DOMAIN tasks : WakeGather(t)
    \/ \E t \in DOMAIN tasks : FollowSequential(t)
    \/ \E t \in DOMAIN tasks : NodeExcept(t)

SpecRun == InitRun /\ [][NextRun]_vars

\* a step of the event loop: a task that is able to run runs, a pending agent call
\* comes back, a finished gather resumes its awaiter
EngineStep ==
    \/ \E t \in DOMAIN tasks : RunStep(t)
    \/ \E t \in DOMAIN tasks : RunExcept(t)
    \/ \E t \in DOMAIN tasks : Enter(t)
    \/ \E t \in DOMAIN tasks : CallLogic(t)
    \/ \E t \in DOMAIN tasks, ok \in BOOLEAN : LogicDone(t, ok)
    \/ \E t \in DOMAIN tasks : Dispatch(t)
    \/ \E t \in DOMAIN tasks : WakeGather(t)
    \/ \E t \in DOMAIN tasks : FollowSequential(t)
    \/ \E t \in DOMAIN tasks : NodeExcept(t)

\* the first run() call on a graph
RunOnce(input, maxit) ==
    /\ runs = 0
    /\ Run(input, maxit, "none")

NextLive ==
    \/ \E maxit \in 0..MaxIter, input \in Inputs : RunOnce(input, maxit)
    \/ EngineStep

\* one traversal under an event loop that keeps running and agent calls that come
\* back
SpecLive == InitRun /\ [][NextLive]_vars /\ WF_vars(EngineStep)


(***************************************************************************)
(* The container specification: callers build a graph with add_node and    *)
(* add_edge.                                                               *)
(***************************************************************************)
BuildIds == {"a", "b"}
UnknownId == "zz"
BuildTypes == {"input", "agent"}

BuildEdges ==
    {Edge(src, tgt, NoCond, FALSE, prio) :
        src \in BuildIds \cup {UnknownId}, tgt \in BuildIds \cup {UnknownId},
        prio \in {0, 1}}

AddNode(id, ty) ==
    /\ LET r == add_node(ThisGraph, id, ty)
       IN /\ SetGraph(r.graph)
          /\ last_call' = Call("add_node", id, NoEdge, r.ok, r.err)
    /\ UNCHANGED <<calls, directory, checkpoint, topo_result, run_vars>>

AddEdge(e) ==
    /\ Len(edges) < MaxEdges
    /\ LET r == add_edge(ThisGraph, e)
       IN /\ SetGraph(r.graph)
          /\ last_call' = Call("add_edge", "", e, r.ok, r.err)
    /\ UNCHANGED <<calls, directory, checkpoint, topo_result, run_vars>>

\* graph.validate()
Validate ==
    /\ LET r == validate(ThisGraph)
       IN last_call' = Call("validate", "", NoEdge, r.ok, r.err)
    /\ UNCHANGED <<calls, graph_vars, directory, checkpoint, topo_result, run_vars>>

InitBuild ==
    /\ nodes = EmptyGraph.nodes
    /\ node_order = EmptyGraph.node_order
    /\ edges = EmptyGraph.edges
    /\ adjacency_list = EmptyGraph.adjacency_list
    /\ reverse_adjacency = EmptyGraph.reverse_adjacency
    /\ enhanced = FALSE
    /\ registry = EmptyMap
    /\ hist = NewHist(EmptyMap)
    /\ IdleRun

NextBuild ==
    \/ \E id \in BuildIds, ty \in BuildTypes : AddNode(id, ty)
    \/ \E e \in BuildEdges : AddEdge(e)
    \/ Validate

SpecBuild == InitBuild /\ [][NextBuild]_vars

(***************************************************************************)
(* The sorting specification: topological_sort is called on a graph that   *)
(* was built from up to three nodes and any edges between them.            *)
(***************************************************************************)
SortIds == <<"a", "b", "c">>

SortEdges(k) == {PlainEdge(SortIds[i], SortIds[j]) : i, j \in 1..k}

\* graph.topological_sort()
TopologicalSort ==
    /\ LET r == topological_sort(ThisGraph)
       IN /\ last_call' = Call("topological_sort", "", NoEdge, r.ok, r.err)
          /\ topo_result' = r.result
    /\ UNCHANGED <<calls, graph_vars, directory, checkpoint, run_vars>>

InitSort ==
    /\ \E k \in 1..Len(SortIds) :
          \E m \in 0..MaxSortEdges :
             \E es \in [1..m -> SortEdges(k)] :
                LET G == Build([i \in 1..k |-> <<SortIds[i], "agent">>], es)
                IN /\ nodes = G.nodes
                   /\ node_order = G.node_order
                   /\ edges = G.edges
                   /\ adjacency_list = G.adjacency_list
                   /\ reverse_adjacency = G.reverse_adjacency
                   /\ hist = NewHist(G.nodes)
    /\ enhanced = FALSE
    /\ registry = EmptyMap
    /\ IdleRun

NextSort == TopologicalSort

SpecSort == InitSort /\ [][NextSort]_vars

(***************************************************************************)
(* Checkpoints (genxai/core/graph/checkpoints.py and the Graph methods     *)
(* save_checkpoint / load_checkpoint that tests/unit/                      *)
(* test_workflow_checkpoint.py calls).  The checkpoint document is JSON:   *)
(* a value is written as null, number, string, array or object, and what   *)
(* JSON cannot express is written as the string str(value).                *)
(***************************************************************************)
\* every value written as the string str(value)
JsonKindAllStrings(tag) == "string"

JsonKind(tag) ==
    CASE tag = "none" -> "null"
      [] tag = "int" -> "number"
      [] tag = "str" -> "string"
      [] tag \in {"tuple", "list"} -> "array"
      [] tag = "state_ref" -> "string"
      [] OTHER -> "object"

\* the JSON text of a value
RECURSIVE ToJson(_)
ToJson(v) ==
    LET kind == JsonKind(v.tag)
    IN [kind |-> kind,
        label |-> IF kind = "object" THEN v.tag ELSE "",
        id |-> IF v.tag = "state_ref" THEN "repr" ELSE v.id,
        n |-> IF v.tag = "state_ref" THEN 0 ELSE v.n,
        members |-> [k \in DOMAIN v.snap |-> ToJson(v.snap[k])]]

\* the value json.loads builds from a JSON text
RECURSIVE FromJson(_)
FromJson(j) ==
    [tag |-> CASE j.kind = "null" -> "none"
               [] j.kind = "number" -> "int"
               [] j.kind = "string" -> "str"
               [] j.kind = "array" -> "list"
               [] OTHER -> j.label,
     id |-> j.id,
     n |-> j.n,
     snap |-> [k \in DOMAIN j.members |-> FromJson(j.members[k])]]

\* a value made of JSON-compatible parts only: no tuple, no reference cycle
RECURSIVE JsonCompatible(_)
JsonCompatible(v) ==
    /\ v.tag \notin {"tuple", "state_ref"}
    /\ \A k \in DOMAIN v.snap : JsonCompatible(v.snap[k])

\* the document save_checkpoint writes: {workflow_name, state, node_statuses}
CheckpointDocument(st, ns) ==
    [workflow_name |-> "workflow",
     state |-> [k \in DOMAIN st |-> ToJson(st[k])],
     node_statuses |-> [n \in DOMAIN ns |-> ns[n].status]]

WorkflowCheckpointManager_save(dir, name, st, ns) == Put(dir, name, CheckpointDocument(st, ns))

\* the checkpoint object load_checkpoint builds from a stored document
WorkflowCheckpointManager_load(dir, name) ==
    [name |-> name,
     workflow_name |-> dir[name].workflow_name,
     state |-> [k \in DOMAIN dir[name].state |-> FromJson(dir[name].state[k])],
     node_statuses |-> dir[name].node_statuses]

\* no run is in progress and no task of an earlier run is left
Quiescent == running = 0 /\ \A t \in DOMAIN tasks : tasks[t].st = "done"

\* graph.save_checkpoint(name, state, directory)
SaveCheckpoint(name) ==
    /\ Quiescent
    /\ runs >= 1
    /\ directory' = WorkflowCheckpointManager_save(directory, name, state, nodes)
    /\ last_call' = Call("save_checkpoint", name, NoEdge, TRUE, "")
    /\ hist' = [hist EXCEPT !.saved = Put(@, name, [state |-> state, nodes |-> nodes])]
    /\ UNCHANGED <<calls, graph_vars, checkpoint, topo_result, enhanced, registry, state,
                   max_iterations, entry_points, tasks, running, outcome, run_error, runs>>

\* graph.load_checkpoint(name, directory)
LoadCheckpoint(name) ==
    /\ Quiescent
    /\ IF name \in DOMAIN directory
       THEN /\ checkpoint' = WorkflowCheckpointManager_load(directory, name)
            /\ last_call' = Call("load_checkpoint", name, NoEdge, TRUE, "")
       ELSE /\ last_call' = Call("load_checkpoint", name, NoEdge, FALSE,
                                  "CheckpointNotFoundError")
            /\ UNCHANGED checkpoint
    /\ UNCHANGED <<calls, graph_vars, directory, topo_result, run_vars>>

\* test_workflow_checkpoint.py lines 28-30: the caller sets every node PENDING
ResetStatuses ==
    /\ Quiescent
    /\ \E n \in DOMAIN nodes : nodes[n].status # "pending"
    /\ nodes' = [n \in DOMAIN nodes |-> [nodes[n] EXCEPT !.status = "pending"]]
    /\ last_call' = Call("reset_statuses", "", NoEdge, TRUE, "")
    /\ UNCHANGED <<calls, node_order, edges, adjacency_list, reverse_adjacency, directory,
                   checkpoint, topo_result, run_vars>>

\* graph.run(input_data=..., resume_from=checkpoint): Graph.run has the parameters
\* (input_data, max_iterations, state) only, so the call raises TypeError before the
\* body of run is entered
RunResume(input) ==
    /\ Quiescent
    /\ checkpoint # NoCheckpoint
    /\ outcome' = "raised"
    /\ run_error' = ResumeTypeErrorMsg
    /\ last_call' = Call("run_resume", input, NoEdge, FALSE, "TypeError")
    /\ hist' = [NewHist(nodes) EXCEPT !.saved = hist.saved]
    /\ UNCHANGED <<calls, graph_vars, directory, checkpoint, topo_result, enhanced, registry,
                   state, max_iterations, entry_points, tasks, running, runs>>

CheckpointNames == {"first"}

InitCkpt ==
    /\ \E n \in 1..MaxChain :
          LET G == ChainGraph(n)
          IN /\ nodes = G.nodes
             /\ node_order = G.node_order
             /\ edges = G.edges
             /\ adjacency_list = G.adjacency_list
             /\ reverse_adjacency = G.reverse_adjacency
             /\ registry = Registered(AgentIds(G))
             /\ hist = NewHist(G.nodes)
    /\ enhanced \in BOOLEAN
    /\ IdleRun

NextCkpt ==
    \/ \E maxit \in {0, MaxChain}, sarg \in {"none", "tuple"}, input \in Inputs :
          Run(input, maxit, sarg)
    \/ \E t \in DOMAIN tasks : RunStep(t)
    \/ \E t \in DOMAIN tasks : RunExcept(t)
    \/ \E t \in DOMAIN tasks : Enter(t)
    \/ \E t \in DOMAIN tasks : CallLogic(t)
    \/ \E t \in DOMAIN tasks, ok \in BOOLEAN : LogicDone(t, ok)
    \/ \E t \in DOMAIN tasks : FollowSequential(t)
    \/ \E t \in DOMAIN tasks : Dispatch(t)
    \/ \E t \in DOMAIN tasks : NodeExcept(t)
    \/ \E name \in CheckpointNames : SaveCheckpoint(name)
    \/ \E name \in CheckpointNames : LoadCheckpoint(name)
    \/ ResetStatuses
    \/ RunResume("in2")

SpecCkpt == InitCkpt /\ [][NextCkpt]_vars

(***************************************************************************)
(* The editing specification: a graph that is run is given further nodes   *)
(* between its runs.                                                       *)
(***************************************************************************)
EditIds == {"a", "x"}

\* add_node called by the owner of the graph while no run is in progress
AddNodeLater(id, ty) ==
    /\ Quiescent
    /\ runs >= 1
    /\ AddNode(id, ty)

NextEdit ==
    \/ \E input \in Inputs : Run(input, MaxChain, "none")
    \/ \E t \in DOMAIN tasks : RunStep(t)
    \/ \E t \in DOMAIN tasks : RunExcept(t)
    \/ \E t \in DOMAIN tasks : Enter(t)
    \/ \E t \in DOMAIN tasks : CallLogic(t)
    \/ \E t \in DOMAIN tasks, ok \in BOOLEAN : LogicDone(t, ok)
    \/ \E t \in DOMAIN tasks : FollowSequential(t)
    \/ \E t \in DOMAIN tasks : Dispatch(t)
    \/ \E t \in DOMAIN tasks : NodeExcept(t)
    \/ \E id \in EditIds, ty \in BuildTypes : AddNodeLater(id, ty)

SpecEdit == InitCkpt /\ [][NextEdit]_vars

(***************************************************************************)
(* Graph.run on graphs whose node ids are the bookkeeping keys of the      *)
(* state.                                                                  *)
(***************************************************************************)
\* InputNode() has the default id "input"; it fans out to an agent named
\* "iterations" and to z
KeyFanGraph ==
    Build(<<<<"input", "input">>, <<"iterations", "agent">>, <<"z", "tool">>>>,
          <<ParallelEdge("input", "iterations"), ParallelEdge("input", "z"),
            PlainEdge("input", "z")>>)

\* a chain whose tool nodes are named "input" and "iterations"
KeyChainGraph ==
    Build(<<<<"s", "input">>, <<"input", "tool">>, <<"iterations", "tool">>>>,
          <<PlainEdge("s", "input"), PlainEdge("input", "iterations")>>)

KeyGraphs == {KeyFanGraph, KeyChainGraph}

InitKeys ==
    /\ \E G \in KeyGraphs :
          /\ nodes = G.nodes
          /\ node_order = G.node_order
          /\ edges = G.edges
          /\ adjacency_list = G.adjacency_list
          /\ reverse_adjacency = G.reverse_adjacency
          /\ registry \in {Registered(AgentIds(G)), EmptyMap}
          /\ hist = NewHist(G.nodes)
    /\ enhanced \in BOOLEAN
    /\ IdleRun

SpecKeys == InitKeys /\ [][NextRun]_vars

(***************************************************************************)
(* executor.py: WorkflowExecutor.execute calls that share the process-wide *)
(* AgentRegistry.  A workflow is a chain start -> agents -> end, given by  *)
(* the ids of its agent nodes in order.  A call runs without suspension    *)
(* from its start to the first agent call, and from the return of one      *)
(* agent call to the next one or to its end.                               *)
(***************************************************************************)
Workflows == {<< >>, <<"a">>, <<"a", "b">>, <<"b", "c">>, <<"c">>}

IdleCall == [pc |-> "idle", wf |-> << >>, i |-> 0, agents |-> << >>,
             status |-> "", error |-> NoError]

\* AgentRegistry.register: the registry is keyed by agent id
AgentRegistry_register(reg, agent) ==
    [a \in DOMAIN reg \cup {agent.id} |-> IF a = agent.id THEN agent ELSE reg[a]]

\* AgentRegistry.clear
AgentRegistry_clear == EmptyMap

\* an agent created and registered for every agent node of the workflow
RECURSIVE create_agents_from_nodes(_, _, _)
create_agents_from_nodes(reg, c, wf) ==
    IF wf = << >> THEN reg
    ELSE create_agents_from_nodes(AgentRegistry_register(reg, AgentHandle(c, wf[1])),
                                  c, SubSeq(wf, 2, Len(wf)))

\* the finally clause of execute
Finally(reg) == AgentRegistry_clear

\* execute returns its result dictionary; the finally clause runs
Return(c, status, error, reg) ==
    /\ calls' = [calls EXCEPT ![c] = [@ EXCEPT !.pc = "done", !.status = status,
                                               !.error = error]]
    /\ registry' = Finally(reg)

\* the traversal of call c reaches its k-th agent node, or the end of the chain
ReachAgent(c, wf, k, reg) ==
    IF k > Len(wf)
    THEN Return(c, "success", NoError, reg)
    ELSE IF wf[k] \notin DOMAIN reg
         THEN Return(c, "error", <<"start">> \o SubSeq(wf, 1, k) \o AgentMissingMsg, reg)
         ELSE /\ calls' = [calls EXCEPT ![c] =
                             [@ EXCEPT !.pc = "agent", !.wf = wf, !.i = k,
                                       !.agents = Append(@, reg[wf[k]])]]
              /\ registry' = reg

\* execute(nodes, edges, input_data) up to its first suspension
Execute(c, wf) ==
    /\ calls[c].pc = "idle"
    /\ ReachAgent(c, wf, 1, create_agents_from_nodes(registry, c, wf))
    /\ UNCHANGED <<graph_vars, last_call, directory, checkpoint, topo_result, enhanced,
                   state, max_iterations, entry_points, tasks, running, outcome,
                   run_error, runs, hist>>

\* the agent call of call c returns (ok) or raises
AgentReturns(c, ok) ==
    /\ calls[c].pc = "agent"
    /\ IF ok
       THEN ReachAgent(c, calls[c].wf, calls[c].i + 1, registry)
       ELSE Return(c, "error",
                   <<"start">> \o SubSeq(calls[c].wf, 1, calls[c].i) \o AgentFailedMsg,
                   registry)
    /\ UNCHANGED <<graph_vars, last_call, directory, checkpoint, topo_result, enhanced,
                   state, max_iterations, entry_points, tasks, running, outcome,
                   run_error, runs, hist>>

InitExec ==
    /\ nodes = EmptyGraph.nodes
    /\ node_order = EmptyGraph.node_order
    /\ edges = EmptyGraph.edges
    /\ adjacency_list = EmptyGraph.adjacency_list
    /\ reverse_adjacency = EmptyGraph.reverse_adjacency
    /\ enhanced = TRUE
    /\ registry = EmptyMap
    /\ hist = NewHist(EmptyMap)
    /\ state = EmptyMap
    /\ max_iterations = 0
    /\ entry_points = << >>
    /\ tasks = << >>
    /\ running = 0
    /\ outcome = "idle"
    /\ run_error = NoError
    /\ runs = 0
    /\ last_call = NoCall
    /\ directory = EmptyMap
    /\ checkpoint = NoCheckpoint
    /\ topo_result = << >>
    /\ calls = [c \in 1..MaxCalls |-> IdleCall]

NextExec ==
    \/ \E c \in DOMAIN calls, wf \in Workflows : Execute(c, wf)
    \/ \E c \in DOMAIN calls, ok \in BOOLEAN : AgentReturns(c, ok)

SpecExec == InitExec /\ [][NextExec]_vars

(***************************************************************************)
(* Properties of the traversal.                                            *)
(***************************************************************************)
RunOver == outcome \in {"returned", "raised"}

\* the position of a node id in a list that holds it
PosIn(list, n) == CHOOSE i \in DOMAIN list : list[i] = n

\* the current run was called with every node PENDING
AllPendingAtStart ==
    runs >= 1 /\ \A n \in DOMAIN hist.before : hist.before[n].status = "pending"

IsPrefix(p, q) == Len(p) <= Len(q) /\ \A i \in DOMAIN p : p[i] = q[i]

\* the message is, or wraps, "Maximum iterations exceeded"
IsMaxIterError(e) == e # NoError /\ e[Len(e)] = MaxIterMsg[1]

\* a single linear chain: node k is joined to node k+1 by an unconditional
\* sequential edge and there is no other edge
IsLinearChain ==
    /\ Len(node_order) >= 1
    /\ Len(edges) = Len(node_order) - 1
    /\ \A k \in DOMAIN edges :
          /\ edges[k].source = node_order[k]
          /\ edges[k].target = node_order[k + 1]
          /\ edges[k].condition = NoCond
          /\ ~edges[k].parallel

\* C1: on a linear chain of N nodes that are all PENDING when run is called, with
\* max_iterations >= N and no failing node logic, the node logics are called once
\* each in chain order, run does not raise, and it returns with iterations = N.
C1_LinearChainOnceInOrder ==
    (/\ IsLinearChain
     /\ AllPendingAtStart
     /\ max_iterations >= Len(node_order)
     /\ hist.failed = {})
    => /\ IsPrefix(hist.order, node_order)
       /\ \A n \in DOMAIN nodes : hist.exec[n] <= 1
       /\ outcome # "raised"
       /\ outcome = "returned" =>
             /\ hist.order = node_order
             /\ \A n \in DOMAIN nodes : hist.exec[n] = 1
             /\ state["iterations"] = IntV(Len(node_order))

W1_ChainOfThreeReturned ==
    /\ IsLinearChain
    /\ Len(node_order) = 3
    /\ AllPendingAtStart
    /\ enhanced
    /\ outcome = "returned"
    /\ hist.order = node_order
    /\ state["iterations"] = IntV(3)

\* node s has two distinct unconditional parallel outgoing edges, to A and to B
HasFork(s, A, B) ==
    \E i, j \in DOMAIN get_outgoing_edges(adjacency_list, s) :
        LET out == get_outgoing_edges(adjacency_list, s)
        IN /\ i # j
           /\ out[i].parallel /\ out[i].condition = NoCond /\ out[i].target = A
           /\ out[j].parallel /\ out[j].condition = NoCond /\ out[j].target = B

\* C2: when a node with two unconditional parallel edges to A and B has been executed
\* in a run that began with every node PENDING and run has returned normally, the
\* state holds both A and B, whatever the order in which the two branches ran and
\* their suspended node logics finished.
C2_BothParallelTargetsPresent ==
    \A s \in DOMAIN nodes, A \in DOMAIN nodes, B \in DOMAIN nodes :
        (/\ HasFork(s, A, B)
         /\ AllPendingAtStart
         /\ hist.exec[s] > 0
         /\ outcome = "returned")
        => A \in DOMAIN state /\ B \in DOMAIN state

W2_ForkReturnedAfterSuspension ==
    /\ HasFork("s", "A", "B")
    /\ enhanced
    /\ outcome = "returned"
    /\ AllPendingAtStart
    /\ Len(tasks) = 3
    /\ tasks[3].fin < tasks[2].fin
    /\ state["A"] = AgentV("A")
    /\ state["B"] = AgentV("B")

\* the position of an edge in the outgoing list of its source
EdgePos(e) ==
    CHOOSE i \in DOMAIN adjacency_list[e.source] :
        /\ adjacency_list[e.source][i] = e
        /\ \A j \in 1..(i - 1) : adjacency_list[e.source][j] # e

\* the followed edges are in ascending priority, ties in insertion order
InPriorityOrder(fol) ==
    \A j, k \in DOMAIN fol :
        j < k => \/ fol[j].priority < fol[k].priority
                 \/ /\ fol[j].priority = fol[k].priority
                    /\ EdgePos(fol[j]) < EdgePos(fol[k])

\* C3: the sequential edges a node follows are followed in ascending priority, ties
\* in insertion order, one at a time: at the moment the target of a followed edge
\* has just been set RUNNING, the target of every edge followed before it from the
\* same source is COMPLETED.
C3_SequentialEdgesInPriorityOrder ==
    \A t \in DOMAIN tasks : \A d \in DOMAIN tasks[t].stack :
        LET f == tasks[t].stack[d]
        IN f.kind = "node" =>
             /\ InPriorityOrder(f.followed)
             /\ (/\ d < Len(tasks[t].stack)
                 /\ f.pc = "seq"
                 /\ tasks[t].stack[d + 1].pc = "call_logic")
                => /\ tasks[t].stack[d + 1].node = f.followed[Len(f.followed)].target
                   /\ nodes[tasks[t].stack[d + 1].node].status = "running"
                   /\ \A j \in 1..(Len(f.followed) - 1) :
                         nodes[f.followed[j].target].status = "completed"

W3_LowerPriorityTargetsCompletedFirst ==
    \E t \in DOMAIN tasks : \E d \in DOMAIN tasks[t].stack :
        LET f == tasks[t].stack[d]
        IN /\ f.kind = "node"
           /\ f.pc = "seq"
           /\ Len(f.followed) = 3
           /\ f.followed[1].priority = 1
           /\ f.followed[2].priority = 2
           /\ f.followed[3].priority = 2
           /\ EdgePos(f.followed[1]) > EdgePos(f.followed[2])
           /\ d < Len(tasks[t].stack)
           /\ tasks[t].stack[d + 1].pc = "call_logic"
           /\ nodes[f.followed[1].target].status = "completed"
           /\ nodes[f.followed[2].target].status = "completed"

\* a true 2-cycle A -> B -> A over unconditional sequential edges, entered through
\* its INPUT node
IsTwoCycle ==
    /\ Len(node_order) = 2
    /\ Len(edges) = 2
    /\ edges[1] = PlainEdge(node_order[1], node_order[2])
    /\ edges[2] = PlainEdge(node_order[2], node_order[1])
    /\ nodes[node_order[1]].type = "input"

\* C4 as stated: run on a 2-cycle with max_iterations = 5 fails with the
\* maximum-iterations-exceeded error.
X4_TwoCycleRaisesMaxIterations ==
    (IsTwoCycle /\ AllPendingAtStart /\ max_iterations = 5 /\ RunOver)
    => outcome = "raised" /\ IsMaxIterError(run_error)

\* C4 amended: run on a 2-cycle with max_iterations = 5, called with every node
\* PENDING, never fails with the maximum-iterations-exceeded error; it visits A, B
\* and A again, the revisit being a no-op, and unless a node logic fails it returns
\* with iterations = 3 and each node logic called once.
C4_TwoCycleReturnsAfterThreeVisits ==
    (IsTwoCycle /\ AllPendingAtStart /\ max_iterations = 5)
    => /\ hist.visits <= 3
       /\ \A n \in DOMAIN nodes : hist.exec[n] <= 1
       /\ RunOver =>
             /\ ~IsMaxIterError(run_error)
             /\ hist.failed = {} =>
                   /\ outcome = "returned"
                   /\ state["iterations"] = IntV(3)
                   /\ \A n \in DOMAIN nodes : hist.exec[n] = 1

W4_TwoCycleReturned ==
    /\ IsTwoCycle
    /\ AllPendingAtStart
    /\ max_iterations = 5
    /\ outcome = "returned"
    /\ hist.visits = 3
    /\ hist.order = node_order

\* what C5 says of a run with max_iterations = 0
FailsBeforeAnyNode ==
    /\ outcome \in {"running", "raised"}
    /\ outcome = "raised" => run_error = MaxIterMsg
    /\ hist.order = << >>
    /\ nodes = hist.before
    /\ \A n \in DOMAIN nodes : hist.writes[n] = 0

\* C5 as stated: run with max_iterations = 0 on any non-empty graph fails with the
\* maximum-iterations-exceeded error before executing any node.
X5_ZeroBudgetAnyGraph ==
    (runs >= 1 /\ max_iterations = 0 /\ DOMAIN nodes # {}) => FailsBeforeAnyNode

\* C5 amended: run with max_iterations = 0 on any non-empty graph that has an entry
\* point fails with the maximum-iterations-exceeded error before executing any node:
\* no node logic runs, every node keeps its status and no node id is written into
\* the state.  (Without an entry point run fails with the no-entry-point error.)
C5_ZeroBudgetFailsBeforeAnyNode ==
    (/\ runs >= 1
     /\ max_iterations = 0
     /\ DOMAIN nodes # {}
     /\ \E n \in DOMAIN nodes :
           \/ get_incoming_nodes(reverse_adjacency, n) = << >>
           \/ nodes[n].type = "input")
    => FailsBeforeAnyNode

W5_ZeroBudgetRaised ==
    /\ runs = 2
    /\ max_iterations = 0
    /\ outcome = "raised"
    /\ run_error = MaxIterMsg
    /\ Len(node_order) >= 3
    /\ \E n \in DOMAIN nodes : nodes[n].status = "completed"
    /\ \E n \in DOMAIN nodes : nodes[n].status = "failed"
    /\ DOMAIN state = {"input", "iterations"}

\* task t makes a step that begins _execute_node on a COMPLETED node
EntersCompleted(t) ==
    /\ Holds(t)
    /\ ~tasks[t].raising
    /\ Top(t).kind = "node"
    /\ Top(t).pc = "enter"
    /\ nodes[Top(t).node].status = "completed"
    /\ tasks'[t] # tasks[t]

\* C6: _execute_node on a COMPLETED node changes no node (status, result, error),
\* does not call the node logic, writes no state key other than the counter, follows
\* no edge and creates no task; when the budget admits the visit it returns with the
\* counter incremented by one, so that a second call has the same outcome as the
\* first apart from that counter.
C6_CompletedNodeVisitIsNoOp ==
    [][\A t \in DOMAIN tasks :
          EntersCompleted(t) =>
             /\ nodes' = nodes
             /\ hist'.exec = hist.exec
             /\ hist'.order = hist.order
             /\ hist'.writes = hist.writes
             /\ DOMAIN state' = DOMAIN state
             /\ \A k \in DOMAIN state : k # "iterations" => state'[k] = state[k]
             /\ Len(tasks') = Len(tasks)
             /\ tasks'[t].stack = SubSeq(tasks[t].stack, 1, Len(tasks[t].stack) - 1)
             /\ state["iterations"].n < max_iterations =>
                   /\ state'["iterations"] = IntV(state["iterations"].n + 1)
                   /\ ~tasks'[t].raising
      ]_vars

W6_CompletedNodeVisitedTwice ==
    /\ "B" \in DOMAIN nodes
    /\ outcome = "returned"
    /\ AllPendingAtStart
    /\ hist.exec["B"] = 1
    /\ hist.writes["B"] = 1
    /\ hist.visits = 6
    /\ Len(node_order) = 4

LogicMsgs == {AgentFailedMsg, AgentMissingMsg}

\* task t makes the step that handles an exception of its node logic
HandlesLogicFailure(t) ==
    /\ running = t
    /\ tasks[t].raising
    /\ tasks[t].st # "done"
    /\ Top(t).kind = "node"
    /\ Top(t).pc \in {"call_logic", "logic"}
    /\ tasks'[t] # tasks[t]

\* C7: when the node logic of N fails, N becomes FAILED, N.error is the failure
\* message, the state is not written, the error goes on to the caller of
\* _execute_node wrapped with N's id, and the run this happens in never returns a
\* state: once it is over it has raised.
C7_LogicFailureFailsNodeAndRun ==
    [][/\ \A t \in DOMAIN tasks :
             HandlesLogicFailure(t) =>
                /\ tasks[t].exc \in LogicMsgs
                /\ nodes'[Top(t).node].status = "failed"
                /\ nodes'[Top(t).node].error = tasks[t].exc
                /\ \A n \in DOMAIN nodes : n # Top(t).node => nodes'[n] = nodes[n]
                /\ state' = state
                /\ tasks'[t].raising
                /\ tasks'[t].exc = Wrap(Top(t).node, tasks[t].exc)
       /\ hist'.failed # {} => outcome' # "returned"
      ]_vars

W7_LogicFailedRunRaised ==
    /\ hist.failed = {"A"}
    /\ outcome = "raised"
    /\ nodes["A"].status = "failed"
    /\ nodes["A"].error = AgentFailedMsg
    /\ "A" \notin DOMAIN state
    /\ run_error = <<"s", "A">> \o AgentFailedMsg

\* the nodes no edge of Graph.edges ends in
NoIncoming == {n \in DOMAIN nodes : \A i \in DOMAIN edges : edges[i].target # n}

\* the nodes traversal has to start from
Starts ==
    IF NoIncoming # {} THEN NoIncoming
    ELSE {n \in DOMAIN nodes : nodes[n].type = "input"}

\* run() is between two entry points, or past the last one
BetweenEntries ==
    /\ outcome = "running"
    /\ Len(tasks[1].stack) = 1
    /\ ~tasks[1].raising

\* C13: run on a non-empty graph starts traversal exactly from the nodes without
\* incoming edge, or from the INPUT nodes when every node has an incoming edge, in
\* node insertion order; whenever run is about to start the next entry point, the
\* traversals of the earlier ones have finished completely (no task is left, each
\* earlier entry point is COMPLETED) and no later entry point without incoming edge
\* has been touched.  Without any start node run fails with the no-entry-point error,
\* having executed no node and changed no node.
C13_EntryPointsInInsertionOrder ==
    (runs >= 1 /\ DOMAIN nodes # {}) =>
       IF Starts = {}
       THEN /\ outcome = "raised"
            /\ run_error = NoEntryMsg
            /\ tasks = << >>
            /\ hist.order = << >>
            /\ hist.visits = 0
            /\ nodes = hist.before
       ELSE /\ Range(entry_points) = Starts
            /\ Len(entry_points) = Cardinality(Starts)
            /\ \A i, j \in DOMAIN entry_points :
                  i < j => PosIn(node_order, entry_points[i]) < PosIn(node_order, entry_points[j])
            /\ Len(tasks) >= 1
            /\ tasks[1].parent = 0
            /\ \A t \in DOMAIN tasks : t # 1 => tasks[t].parent # 0
            /\ Len(tasks[1].stack) >= 2 =>
                  /\ tasks[1].stack[1].kind = "run"
                  /\ tasks[1].stack[2].node = entry_points[tasks[1].stack[1].i - 1]
            /\ BetweenEntries =>
                  /\ \A t \in DOMAIN tasks : t # 1 => tasks[t].st = "done"
                  /\ \A j \in DOMAIN entry_points :
                        IF j < tasks[1].stack[1].i
                        THEN nodes[entry_points[j]].status = "completed"
                        ELSE NoIncoming # {} =>
                                /\ nodes[entry_points[j]] = hist.before[entry_points[j]]
                                /\ hist.exec[entry_points[j]] = 0

W13_SecondEntryAfterFanOutFinished ==
    /\ runs >= 1
    /\ entry_points = <<"s", "t">>
    /\ node_order = <<"s", "A", "B", "t">>
    /\ BetweenEntries
    /\ tasks[1].stack[1].i = 2
    /\ Len(tasks) = 3
    /\ enhanced
    /\ nodes["t"].status = "pending"
    /\ nodes["A"].status = "completed"

\* C14: from the start of a run on a non-empty graph, state["input"] is the
\* input_data of this run and state["iterations"] is the number of node visits of
\* this run (0 at the start), whatever the supplied state held under these two keys;
\* every other key of the supplied state is still there with its value, unless it is
\* the id of a node this run has executed.
C14_CounterIsPerRun ==
    (runs >= 1 /\ DOMAIN nodes # {}) =>
       /\ state["input"] = DataV(hist.input)
       /\ state["iterations"] = IntV(hist.visits)
       /\ \A k \in DOMAIN hist.supplied \ {"input", "iterations"} :
             /\ k \in DOMAIN state
             /\ (k \in DOMAIN nodes => hist.writes[k] = 0) => state[k] = hist.supplied[k]

W14_SecondRunCountsFromZero ==
    /\ runs = 2
    /\ outcome = "returned"
    /\ {"iterations", "task", "c"} \subseteq DOMAIN hist.supplied
    /\ hist.supplied["iterations"] = IntV(3)
    /\ hist.supplied["task"] = DataV("t1")
    /\ state["iterations"] = IntV(1)
    /\ state["task"] = DataV("t1")
    /\ state["input"] = DataV("in1")

\* C15: barrier: as long as a branch task that _execute_node dispatched through
\* gather has not finished, the _execute_node call that dispatched it has not handed
\* control back to its caller: its frame is still on the stack of the dispatching
\* task.
X15_BranchesJoinedBeforeReturn ==
    \A k \in DOMAIN tasks :
        (tasks[k].parent # 0 /\ tasks[k].st # "done")
        => \E d \in DOMAIN tasks[tasks[k].parent].stack :
              k \in tasks[tasks[k].parent].stack[d].kids

\* C16: in a run that starts with every node PENDING, the logic of each node is
\* executed at most once and state[node_id] is written at most once, whatever the
\* interleaving of the parallel branches.
X16_NodeExecutedAtMostOnce ==
    AllPendingAtStart =>
       \A n \in DOMAIN nodes : hist.exec[n] <= 1 /\ hist.writes[n] <= 1

StatusChanges ==
    {<<"pending", "running">>, <<"running", "completed">>, <<"running", "failed">>}

\* C17: in a run that starts with every node PENDING, every change of a node's status
\* is PENDING -> RUNNING, RUNNING -> COMPLETED or RUNNING -> FAILED; in particular
\* the status of a COMPLETED or FAILED node does not change again.
X17_StatusChangesFollowStateMachine ==
    [][AllPendingAtStart =>
          \A n \in DOMAIN nodes :
              nodes'[n].status # nodes[n].status =>
                 <<nodes[n].status, nodes'[n].status>> \in StatusChanges
      ]_vars

\* C18: when run has returned, the value stored for an OUTPUT node that this run
\* executed is a copy of the state made before the node's result was inserted: it is
\* not the state dict itself and it has no entry under the node's own id.  This
\* holds for Graph and for EnhancedGraph.
X18_OutputResultIsSnapshot ==
    outcome = "returned" =>
       \A n \in DOMAIN nodes :
           (nodes[n].type = "output" /\ hist.exec[n] > 0) =>
              /\ n \in DOMAIN state
              /\ state[n] # StateRefV(runs)
              /\ state[n].tag = "snapshot"
              /\ n \notin DOMAIN state[n].snap

\* task t is about to evaluate the sequential edge e of the node of its top frame
AtSequentialEdge(t, e) ==
    /\ running = t
    /\ ~tasks[t].raising
    /\ Top(t).kind = "node"
    /\ Top(t).pc = "seq"
    /\ LET es == SortedByPriority(FilterParallel(
                     get_outgoing_edges(adjacency_list, Top(t).node), FALSE))
       IN Top(t).i <= Len(es) /\ e = es[Top(t).i]

\* task t is about to evaluate the parallel edges of the node of its top frame
AtParallelEdges(t) ==
    /\ running = t
    /\ ~tasks[t].raising
    /\ Top(t).kind = "node"
    /\ Top(t).pc = "edges"

\* the nodes for which the step creates a branch task
Dispatched == {tasks'[k].stack[1].node : k \in (DOMAIN tasks') \ (DOMAIN tasks)}

\* C19: the evaluation of an edge whose predicate raises raises nothing in
\* _execute_node, starts no visit of the edge's target, changes no node (the source
\* is and stays COMPLETED) and no state, and moves on to the next outgoing edge; an
\* edge without condition is followed: its target is visited next (sequential) or
\* gets a branch task (parallel).
C19_RaisingConditionMeansNotTaken ==
    [][\A t \in DOMAIN tasks :
          /\ \A e \in Range(edges) :
                (AtSequentialEdge(t, e) /\ tasks' # tasks) =>
                   /\ ~tasks'[t].raising
                   /\ e.condition = RaiseCond =>
                         /\ tasks'[t].stack =
                               [tasks[t].stack EXCEPT ![Len(tasks[t].stack)].i = @ + 1]
                         /\ Len(tasks') = Len(tasks)
                         /\ nodes[e.source].status = "completed"
                         /\ nodes' = nodes
                         /\ state' = state
                         /\ hist' = hist
                   /\ e.condition = NoCond =>
                         /\ Len(tasks'[t].stack) = Len(tasks[t].stack) + 1
                         /\ tasks'[t].stack[Len(tasks'[t].stack)] = NodeFrame(e.target)
                         /\ tasks'[t].stack[Len(tasks[t].stack)].i = Top(t).i + 1
          /\ (AtParallelEdges(t) /\ tasks' # tasks) =>
                LET par == {e \in Range(get_outgoing_edges(adjacency_list, Top(t).node)) :
                               e.parallel}
                IN /\ ~tasks'[t].raising
                   /\ nodes' = nodes
                   /\ state' = state
                   /\ {e.target : e \in {x \in par : x.condition = NoCond}} \subseteq Dispatched
                   /\ Dispatched \subseteq
                         {e.target : e \in {x \in par : x.condition # RaiseCond}}
                   /\ Len(tasks'[t].stack) = Len(tasks[t].stack)
      ]_vars

\* in ConditionGraph the edge s -> A raises and the next edge s -> B is followed
W19_NextEdgeFollowedAfterRaisingOne ==
    \E t \in DOMAIN tasks :
        /\ Len(tasks[t].stack) = 3
        /\ tasks[t].stack[2].node = "s"
        /\ tasks[t].stack[2].pc = "seq"
        /\ tasks[t].stack[2].i = 3
        /\ Len(tasks[t].stack[2].followed) = 1
        /\ tasks[t].stack[2].followed[1].condition = HasCond("s")
        /\ \E e \in Range(adjacency_list["s"]) :
              e.condition = RaiseCond /\ ~e.parallel /\ e.target = "A"
        /\ tasks[t].stack[3].node = "B"
        /\ nodes["s"].status = "completed"
        /\ nodes["A"].status = "pending"
        /\ hist.exec["A"] = 0
        /\ AllPendingAtStart

\* C20: at every point of a run (max_iterations >= 0) the counter
\* state["iterations"] is at most max_iterations and equals the number of visits
\* that passed the budget check, so that number never exceeds max_iterations either,
\* whatever the interleaving of the parallel branches.
C20_VisitsWithinBudget ==
    (runs >= 1 /\ DOMAIN nodes # {}) =>
       /\ Iterations(state) <= max_iterations
       /\ hist.visits <= max_iterations
       /\ hist.visits = Iterations(state)

\* the whole budget has been spent and two branches are still under way
W20_BudgetSpentAcrossBranches ==
    /\ runs >= 1
    /\ enhanced
    /\ max_iterations = 3
    /\ hist.visits = 3
    /\ Len(tasks) >= 3
    /\ tasks[2].st = "logic"
    /\ tasks[3].st = "logic"
    /\ Len(tasks[2].stack) = 1
    /\ Len(tasks[3].stack) = 1

\* C21: every run that has begun traversal eventually returns or raises, on every
\* graph (cyclic ones included) and for every max_iterations >= 0, provided the
\* event loop keeps running and every node-logic call comes back.
C21_RunTerminates == (outcome = "running") ~> RunOver

\* the 2-cycle run out of budget
W21_CycleStoppedByBudget ==
    /\ IsTwoCycle
    /\ AllPendingAtStart
    /\ max_iterations = 2
    /\ outcome = "raised"
    /\ IsMaxIterError(run_error)
    /\ hist.visits = 2

\* node n has incoming edges, the source of each of them was executed and is
\* COMPLETED, none of their conditions is met, and n itself was never executed
Bypassed(n) ==
    /\ \E i \in DOMAIN edges : edges[i].target = n
    /\ \A i \in DOMAIN edges :
          edges[i].target = n =>
             /\ edges[i].source # n
             /\ nodes[edges[i].source].status = "completed"
             /\ hist.exec[edges[i].source] > 0
             /\ ~evaluate_condition(edges[i], state)
    /\ hist.exec[n] = 0

\* C23: when a run that began with every node PENDING has returned, a node that was
\* bypassed because the conditions of all edges leading to it were unmet has status
\* SKIPPED.
X23_BypassedNodeIsSkipped ==
    (outcome = "returned" /\ AllPendingAtStart) =>
       \A n \in DOMAIN nodes : Bypassed(n) => nodes[n].status = "skipped"

\* task t makes the step in which the _execute_node call at the top of its stack
\* handles an exception that came out of a descendant (an awaited sequential target,
\* or gather)
HandlesDescendantFailure(t) ==
    /\ running = t
    /\ tasks[t].raising
    /\ tasks[t].st # "done"
    /\ Top(t).kind = "node"
    /\ Top(t).pc \in {"gather", "seq"}
    /\ tasks'[t] # tasks[t]

\* what the handling step does to the ancestor
AncestorFails(t) ==
    /\ Top(t).node \in DOMAIN state
    /\ state[Top(t).node] = nodes[Top(t).node].result
    /\ state' = state
    /\ nodes'[Top(t).node].status = "failed"
    /\ nodes'[Top(t).node].result = nodes[Top(t).node].result
    /\ nodes'[Top(t).node].error = tasks[t].exc
    /\ \A n \in DOMAIN nodes : n # Top(t).node => nodes'[n] = nodes[n]
    /\ tasks'[t].raising
    /\ tasks'[t].exc = Wrap(Top(t).node, tasks[t].exc)

\* C24 as stated: the ancestor that handles the failure of descendants ends up FAILED
\* with an error that wraps the message of every descendant that failed below it
\* while it was waiting, the failed branches of its gather included.
X24_AncestorWrapsEveryFailedDescendant ==
    [][\A t \in DOMAIN tasks :
          HandlesDescendantFailure(t) =>
             /\ AncestorFails(t)
             /\ \A k \in Top(t).kids :
                   (tasks[k].st = "done" /\ tasks[k].raising) =>
                      nodes'[Top(t).node].error = tasks[k].exc
      ]_vars

\* C24 amended: when an exception of a descendant reaches the _execute_node call of
\* an ancestor (from the awaited target of a sequential edge, or from gather, which
\* delivers the failure of the branch that failed first), the ancestor, whose result
\* is and stays in the state, becomes FAILED, its error is the message received, no
\* other node changes, and the exception goes on wrapped with the ancestor's id.
C24_AncestorFailsWithReceivedMessage ==
    [][\A t \in DOMAIN tasks : HandlesDescendantFailure(t) => AncestorFails(t)]_vars

\* the budget ran out on entering c: a and b are FAILED and still keys of the state
W24_CompletedAncestorsEndFailed ==
    /\ node_order = <<"a", "b", "c">>
    /\ AllPendingAtStart
    /\ max_iterations = 2
    /\ outcome = "raised"
    /\ run_error = <<"a", "b">> \o MaxIterMsg
    /\ nodes["b"].status = "failed"
    /\ nodes["b"].error = MaxIterMsg
    /\ nodes["a"].status = "failed"
    /\ nodes["a"].error = <<"b">> \o MaxIterMsg
    /\ nodes["c"].status = "pending"
    /\ {"a", "b"} \subseteq DOMAIN state
    /\ state["a"] = nodes["a"].result

\* every entry point of the current run was COMPLETED when run was called
EntryPointsCompletedAtStart ==
    /\ runs >= 1
    /\ entry_points # << >>
    /\ \A i \in DOMAIN entry_points : hist.before[entry_points[i]].status = "completed"

\* C25: when every entry point is COMPLETED at the start of run, the run executes no
\* node logic, creates no branch, writes no result, changes no node (the PENDING
\* descendants stay PENDING), visits at most the entry points, and when it returns
\* the returned iterations is the number of entry points.
C25_RunOverCompletedEntriesDoesNothing ==
    EntryPointsCompletedAtStart =>
       /\ nodes = hist.before
       /\ hist.order = << >>
       /\ \A n \in DOMAIN nodes : hist.exec[n] = 0 /\ hist.writes[n] = 0
       /\ Len(tasks) = 1
       /\ hist.visits <= Len(entry_points)
       /\ outcome = "returned" =>
             /\ hist.visits = Len(entry_points)
             /\ state["iterations"] = IntV(Len(entry_points))

\* a second run returned with iterations 1 and left a descendant of its COMPLETED
\* entry point PENDING
W25_SecondRunLeavesDescendantPending ==
    /\ runs = 2
    /\ EntryPointsCompletedAtStart
    /\ outcome = "returned"
    /\ state["iterations"] = IntV(Len(entry_points))
    /\ \E i \in DOMAIN edges :
          /\ edges[i].source = entry_points[1]
          /\ edges[i].target # entry_points[1]
          /\ nodes[edges[i].target].status = "pending"

\* task k was created below task t
RECURSIVE DescendsFrom(_, _)
DescendsFrom(k, t) ==
    /\ k \in DOMAIN tasks
    /\ tasks[k].parent # 0
    /\ (tasks[k].parent = t \/ DescendsFrom(tasks[k].parent, t))

\* what the predicate of edge e yields on the state st
ConditionHolds(e, st) ==
    \/ e.condition.kind \in {"none", "true"}
    \/ e.condition.kind = "has" /\ e.condition.key \in DOMAIN st

\* the targets of the branch tasks created by the step, in task order
NewBranchTargets ==
    [k \in 1..(Len(tasks') - Len(tasks)) |-> tasks'[Len(tasks) + k].stack[1].node]

\* the targets of the edges in es whose predicate holds on st, in order
RECURSIVE PassingTargets(_, _)
PassingTargets(es, st) ==
    IF es = << >> THEN << >>
    ELSE LET rest == PassingTargets(SubSeq(es, 1, Len(es) - 1), st)
         IN IF ConditionHolds(es[Len(es)], st)
            THEN Append(rest, es[Len(es)].target) ELSE rest

\* C26: the conditions of all parallel edges of a node are evaluated in one step, on
\* the state that holds the node's own result and before any of the branches has
\* started: the branches created are exactly those of the edges whose condition
\* holds on that state.  The condition of a sequential edge is evaluated when every
\* task created below the evaluating one (the parallel branches and whatever the
\* earlier sequential siblings started) has ended, on the state as it is then, which
\* holds every result written so far; the target is visited exactly when the
\* condition holds on it.
C26_ConditionEvaluationTiming ==
    [][\A t \in DOMAIN tasks :
          /\ (AtParallelEdges(t) /\ tasks' # tasks) =>
                /\ Top(t).kids = {}
                /\ nodes[Top(t).node].status = "completed"
                /\ Top(t).node \in DOMAIN state
                /\ state[Top(t).node] = nodes[Top(t).node].result
                /\ state' = state
                /\ NewBranchTargets =
                      PassingTargets(SelectSeq(get_outgoing_edges(adjacency_list,
                                                                  Top(t).node),
                                               LAMBDA e : e.parallel), state)
                /\ \A k \in (DOMAIN tasks') \ (DOMAIN tasks) :
                      tasks'[k].st = "ready" /\ tasks'[k].parent = t
          /\ \A e \in Range(edges) :
                (AtSequentialEdge(t, e) /\ tasks' # tasks) =>
                   /\ \A k \in DOMAIN tasks : DescendsFrom(k, t) => tasks[k].st = "done"
                   /\ \A k \in Top(t).kids : ~tasks[k].raising
                   /\ \A n \in DOMAIN nodes :
                         hist.writes[n] > 0 =>
                            n \in DOMAIN state /\ state[n] = nodes[n].result
                   /\ state' = state
                   /\ Len(tasks'[t].stack) = Len(tasks[t].stack) + 1
                         <=> ConditionHolds(e, state)
                   /\ ConditionHolds(e, state) =>
                         tasks'[t].stack[Len(tasks'[t].stack)] = NodeFrame(e.target)
      ]_vars

\* in TimingGraph the parallel edge s => B, conditioned on the result of the branch A,
\* was not taken, while the sequential edges conditioned on the results of the branch
\* A and of the earlier sibling C were: B ran once, after C
W26_SequentialConditionSeesBranchWrites ==
    /\ node_order = <<"s", "A", "B", "C">>
    /\ AllPendingAtStart
    /\ outcome = "returned"
    /\ hist.order = <<"s", "A", "C", "B">>
    /\ Len(tasks) = 2
    /\ {"A", "B", "C"} \subseteq DOMAIN state

\* the outgoing edges of node n with the given parallel flag, in insertion order
OutgoingWhere(n, flag) ==
    SelectSeq(get_outgoing_edges(adjacency_list, n), LAMBDA e : e.parallel = flag)

\* C27: a node follows none of its sequential edges before its parallel branches are
\* created, and evaluates a sequential edge (the step that starts the visit of its
\* target through that edge) only when every branch it created has ended without an
\* exception, also when the sequential edge has the lowest priority value of all its
\* outgoing edges; the branches are created in the insertion order of the parallel
\* edges, not in the order of their priority values.
C27_ParallelBranchesBeforeSequentialEdges ==
    [][\A t \in DOMAIN tasks :
          /\ (AtParallelEdges(t) /\ tasks' # tasks) =>
                /\ Top(t).followed = << >>
                /\ NewBranchTargets = PassingTargets(OutgoingWhere(Top(t).node, TRUE), state)
                /\ (DOMAIN tasks') \ (DOMAIN tasks) # {} =>
                      /\ tasks'[t].st = "gather"
                      /\ tasks'[t].stack[Len(tasks'[t].stack)].kids =
                            (DOMAIN tasks') \ (DOMAIN tasks)
                      /\ running' = 0
          /\ \A e \in Range(edges) :
                (AtSequentialEdge(t, e) /\ tasks' # tasks) =>
                   /\ Cardinality(Top(t).kids) <= Len(OutgoingWhere(Top(t).node, TRUE))
                   /\ \A k \in Top(t).kids :
                         /\ tasks[k].st = "done"
                         /\ ~tasks[k].raising
                         /\ tasks[k].stack = << >>
                   /\ \A i \in DOMAIN Top(t).followed :
                         Top(t).followed[i].priority <= e.priority
      ]_vars

\* in MixedGraph s follows its sequential edge of priority 0 when the branches of its
\* parallel edges of priority 5 and 1, created in that order, have both ended
W27_SequentialEdgeAfterBothBranches ==
    /\ node_order = <<"s", "A", "B", "t">>
    /\ AllPendingAtStart
    /\ outcome = "running"
    /\ Len(tasks) = 3
    /\ Len(tasks[1].stack) = 3
    /\ tasks[1].stack[2].node = "s"
    /\ tasks[1].stack[2].kids = {2, 3}
    /\ tasks[1].stack[2].followed = <<Edge("s", "B", NoCond, FALSE, 0)>>
    /\ tasks[1].stack[3] = NodeFrame("B")
    /\ tasks[2].st = "done" /\ tasks[3].st = "done"
    /\ hist.order \in {<<"s", "A", "B">>, <<"s", "B", "A">>}

\* C28: when run has returned from a start in which all nodes were PENDING, no node
\* is RUNNING or FAILED, every entry point is COMPLETED, the target of every edge
\* whose condition evaluated true during the run is COMPLETED (and its source too),
\* and for every COMPLETED node state[node_id] is the node's result.
C28_StateAfterNormalReturn ==
    (outcome = "returned" /\ AllPendingAtStart) =>
       /\ \A n \in DOMAIN nodes : nodes[n].status \in {"pending", "completed"}
       /\ \A i \in DOMAIN entry_points : nodes[entry_points[i]].status = "completed"
       /\ \A e \in hist.taken :
             nodes[e.source].status = "completed" /\ nodes[e.target].status = "completed"
       /\ \A n \in DOMAIN nodes :
             nodes[n].status = "completed" =>
                n \in DOMAIN state /\ state[n] = nodes[n].result

\* the join graph returned although j was entered by both branches: every node is
\* COMPLETED and state holds the result of j's later execution
W28_JoinReturnedAfterDoubleExecution ==
    /\ node_order = <<"s", "A", "B", "j">>
    /\ AllPendingAtStart
    /\ outcome = "returned"
    /\ hist.exec["j"] = 2
    /\ Cardinality(hist.taken) = 4
    /\ \A n \in DOMAIN nodes : nodes[n].status = "completed"
    /\ state["j"] = nodes["j"].result

\* C30: in every run that got to its traversal, whatever the node ids are,
\* state["iterations"] is the number of node visits made so far, and the state of a
\* run that returned holds the run's input_data under "input".
X30_BookkeepingKeysUndisturbed ==
    (runs >= 1 /\ tasks # << >>) =>
       /\ "iterations" \in DOMAIN state
       /\ state["iterations"] = IntV(hist.visits)
       /\ outcome = "returned" =>
             "input" \in DOMAIN state /\ state["input"] = DataV(hist.input)

(***************************************************************************)
(* Properties of the container.                                            *)
(***************************************************************************)
\* C10: add_edge with a source or target id that is not a key of Graph.nodes fails
\* and leaves the edge list and both adjacency indices (and the nodes) as they were.
C10_AddEdgeUnknownNodeChangesNothing ==
    [][(/\ last_call'.op = "add_edge"
        /\ \/ last_call'.edge.source \notin DOMAIN nodes
           \/ last_call'.edge.target \notin DOMAIN nodes)
       => /\ ~last_call'.ok
          /\ edges' = edges
          /\ adjacency_list' = adjacency_list
          /\ reverse_adjacency' = reverse_adjacency
          /\ nodes' = nodes
          /\ node_order' = node_order
      ]_vars

W10_AddEdgeUnknownTargetRejected ==
    /\ last_call.op = "add_edge"
    /\ ~last_call.ok
    /\ last_call.err = "ValueError: target not found"
    /\ last_call.edge.source \in DOMAIN nodes
    /\ Len(edges) >= 1


\* the step is a call of add_node
IsAddNodeStep ==
    /\ last_call'.op = "add_node"
    /\ tasks' = tasks
    /\ runs' = runs
    /\ hist' = hist

\* C11: add_node with an id that is already a key of Graph.nodes fails and leaves the
\* graph as it was, the stored node keeping its type, status, result and error; with
\* a new id it succeeds, appends a PENDING node under that id, keeps every other node
\* and changes neither the edge list nor the adjacency indices.
C11_AddNodeDuplicateRejected ==
    [][IsAddNodeStep =>
          IF last_call'.id \in DOMAIN nodes
          THEN /\ ~last_call'.ok
               /\ nodes' = nodes
               /\ node_order' = node_order
               /\ edges' = edges
               /\ adjacency_list' = adjacency_list
               /\ reverse_adjacency' = reverse_adjacency
          ELSE /\ last_call'.ok
               /\ DOMAIN nodes' = DOMAIN nodes \cup {last_call'.id}
               /\ \A n \in DOMAIN nodes : nodes'[n] = nodes[n]
               /\ \E ty \in NodeType : nodes'[last_call'.id] = Node(ty)
               /\ node_order' = Append(node_order, last_call'.id)
               /\ edges' = edges
               /\ adjacency_list' = adjacency_list
               /\ reverse_adjacency' = reverse_adjacency
      ]_vars

W11_DuplicateOfCompletedNodeRejected ==
    /\ last_call.op = "add_node"
    /\ ~last_call.ok
    /\ last_call.id = "a"
    /\ nodes["a"].type = "input"
    /\ nodes["a"].status = "completed"
    /\ nodes["a"].result = DataV("in1")
    /\ "x" \in DOMAIN nodes
    /\ Len(edges) = 2

\* the nodes that can be reached from the nodes of `from` over one or more edges
RECURSIVE ReachedFrom(_)
ReachedFrom(from) ==
    LET next == from \cup {edges[i].target : i \in {j \in DOMAIN edges : edges[j].source \in from}}
    IN IF next = from THEN from ELSE ReachedFrom(next)

Successors(n) == {edges[i].target : i \in {j \in DOMAIN edges : edges[j].source = n}}

\* some node lies on a directed cycle (a self-loop is one)
HasDirectedCycle ==
    \E n \in DOMAIN nodes : Successors(n) # {} /\ n \in ReachedFrom(Successors(n))

\* C12: topological_sort fails with the cycle error exactly when the graph has a
\* directed cycle; otherwise it returns a list in which every node id occurs exactly
\* once and the source of every edge of Graph.edges stands before its target.  The
\* call changes neither nodes, edges nor adjacency indices.
C12_TopologicalSortOrCycleError ==
    [][last_call'.op = "topological_sort" =>
          /\ nodes' = nodes
          /\ node_order' = node_order
          /\ edges' = edges
          /\ adjacency_list' = adjacency_list
          /\ reverse_adjacency' = reverse_adjacency
          /\ last_call'.ok <=> ~HasDirectedCycle
          /\ ~last_call'.ok => last_call'.err = "Graph contains cycles"
          /\ last_call'.ok =>
                /\ Len(topo_result') = Cardinality(DOMAIN nodes)
                /\ Range(topo_result') = DOMAIN nodes
                /\ \A i \in DOMAIN edges :
                      PosIn(topo_result', edges[i].source) < PosIn(topo_result', edges[i].target)
      ]_vars

\* c -> b twice and b -> a: the sorted list reverses the insertion order
W12_SortedAgainstInsertionOrder ==
    /\ last_call.op = "topological_sort"
    /\ last_call.ok
    /\ topo_result = <<"c", "b", "a">>
    /\ Len(edges) = 3
    /\ edges[1] = edges[2]

\* the edges of the edge list that satisfy a test on (source, target), in list order
RECURSIVE EdgesWhere(_, _, _)
EdgesWhere(es, field, n) ==
    IF es = << >> THEN << >>
    ELSE LET rest == EdgesWhere(SubSeq(es, 1, Len(es) - 1), field, n)
             last == es[Len(es)]
         IN IF (IF field = "source" THEN last.source ELSE last.target) = n
            THEN Append(rest, last) ELSE rest

\* C22: after any sequence of add_node and add_edge calls, rejected ones included,
\* every edge of the edge list joins two existing nodes, the forward index of a node
\* is the list of the edges with that source in insertion order, the reverse index
\* of a node is the list of the sources of the edges with that target, and validate()
\* on a non-empty graph succeeds, connected or not.
C22_IndicesConsistentAndValid ==
    /\ \A i \in DOMAIN edges :
          edges[i].source \in DOMAIN nodes /\ edges[i].target \in DOMAIN nodes
    /\ DOMAIN adjacency_list \subseteq DOMAIN nodes
    /\ DOMAIN reverse_adjacency \subseteq DOMAIN nodes
    /\ Range(node_order) = DOMAIN nodes
    /\ \A n \in DOMAIN nodes :
          /\ get_outgoing_edges(adjacency_list, n) = EdgesWhere(edges, "source", n)
          /\ get_incoming_nodes(reverse_adjacency, n) =
                [i \in DOMAIN EdgesWhere(edges, "target", n) |->
                    EdgesWhere(edges, "target", n)[i].source]
    /\ (last_call.op = "validate" /\ DOMAIN nodes # {}) => last_call.ok

\* validate succeeded on two nodes that no edge joins (each has a self-loop only)
W22_DisconnectedGraphValid ==
    /\ last_call.op = "validate"
    /\ last_call.ok
    /\ Len(node_order) = 2
    /\ Len(edges) = 2
    /\ \A i \in DOMAIN edges : edges[i].source = edges[i].target
    /\ Cardinality(dfs_visit(ThisGraph, node_order[1])) = 1

(***************************************************************************)
(* Properties of the executor.                                             *)
(***************************************************************************)
\* the lookup of an agent failed
IsAgentMissingError(e) == Len(e) >= 1 /\ e[Len(e)] = AgentMissingMsg[1]

\* C29: whatever the interleaving of the execute calls, every AGENT node of a call
\* is executed with the agent that this call registered for it, and no call ends
\* with an agent-not-found error.
X29_OverlappingCallsDoNotInterfere ==
    \A c \in DOMAIN calls :
       /\ \A k \in DOMAIN calls[c].agents :
             calls[c].agents[k] = AgentHandle(c, calls[c].wf[k])
       /\ ~IsAgentMissingError(calls[c].error)

(***************************************************************************)
(* Properties of checkpoints.                                              *)
(***************************************************************************)
\* the error is one that a node execution produces
IsExecutionError(e) ==
    e # NoError /\ e[Len(e)] \in {MaxIterMsg[1], AgentFailedMsg[1], AgentMissingMsg[1]}

\* C8: a call run(input_data, resume_from=checkpoint) made after the statuses were
\* reset resumes: if it raises, it is because a node execution failed; when it
\* returns, no node that is COMPLETED in the checkpoint had its logic executed, the
\* returned state holds the checkpointed result of each such node, and
\* state["input"] is the new input_data.
X8_ResumeSkipsCompletedNodes ==
    (/\ last_call.op = "run_resume"
     /\ RunOver
     /\ \A n \in DOMAIN nodes : hist.before[n].status = "pending")
    => /\ outcome = "raised" => IsExecutionError(run_error)
       /\ outcome = "returned" =>
             /\ state["input"] = DataV(last_call.id)
             /\ \A n \in DOMAIN nodes :
                   checkpoint.node_statuses[n] = "completed" =>
                      /\ hist.exec[n] = 0
                      /\ n \in DOMAIN state
                      /\ state[n] = checkpoint.state[n]

JsonCompatibleState(st) == \A k \in DOMAIN st : JsonCompatible(st[k])

====
